---- MODULE Spec2Model ----
(***************************************************************************)
(* A model of the LedgerAI personal finance ledger (src/App.tsx,           *)
(* src/services/geminiService.ts, src/components/TransactionItem.tsx and   *)
(* src/service-worker.js): the transaction store held in React state, the  *)
(* add/edit form, the localStorage persistence effects, the asynchronous   *)
(* smart-parse and insight calls, the totals and the memoized savings of   *)
(* the month, the sorted and grouped home list, the statistics series, the *)
(* CSV export, and the service worker's caches.                            *)
(*                                                                         *)
(* JavaScript values are modelled by what the code can observe of them:    *)
(*   - a number is a record [k, v] with k = "number", the value NaN and    *)
(*     the JSON value null are records of their own kind;                  *)
(*   - a date string is a record [fmt, t]: an ISO string (t = the instant  *)
(*     in clock ticks, UTC), a datetime-local input string (t = the local  *)
(*     wall-clock reading) or a string that is no date;                    *)
(*   - the text under a localStorage key is a record that says whether the *)
(*     key is present, whether the text parses, and what it parses to.     *)
(*   - arithmetic on numbers rounds to MantissaBits significant bits, to   *)
(*     nearest, ties to even, as IEEE 754 does with 53.                    *)
(* Date.now() and new Date() read `now`, counted in clock ticks.           *)
(***************************************************************************)
EXTENDS Integers, Sequences, FiniteSets, TLC

(***************************************************************************)
(* Bounds of the model.                                                    *)
(***************************************************************************)
MaxClock == 2
MaxTx == 2
MaxInflight == 2
TicksPerDay == 2
TzShift == 1
MantissaBits == 3
DaysPerMonth == 2
MonthsPerYear == 12
YearsPerCentury == 100
MaxLedger == 3

(***************************************************************************)
(* JavaScript numbers, parseFloat and Number.prototype.toString.           *)
(***************************************************************************)
Num(n) == [k |-> "number", v |-> n]
NaN == [k |-> "NaN", v |-> 0]
JNull == [k |-> "null", v |-> 0]
Zero == Num(0)

Decimals == -5 .. 12

IsNumber(x) == x.k = "number"
IsNaN(x) == x.k = "NaN"

\* a <= b on JavaScript numbers: every comparison with NaN is false.
NumLeq(a, b) == IsNumber(a) /\ IsNumber(b) /\ a.v <= b.v
NumGt(a, b) == IsNumber(a) /\ IsNumber(b) /\ a.v > b.v

\* Object.is / SameValue on numbers, React's test for "state unchanged".
ObjectIs(a, b) == a = b

\* parseFloat(s): the number a decimal numeral denotes, NaN for any other text.
ParseFloat(s) ==
  IF \E n \in Decimals : ToString(n) = s
    THEN Num(CHOOSE n \in Decimals : ToString(n) = s)
    ELSE NaN

\* x.toString() for a number x.
NumToString(x) == IF IsNumber(x) THEN ToString(x.v) ELSE "NaN"

\* The rounding of every arithmetic result: JavaScript numbers are binary
\* floating point, round to nearest, ties to even; the model keeps the rounding
\* and shortens the significand from 53 bits to MantissaBits.
Round(x) ==
  LET a == IF x < 0 THEN -x ELSE x
      e == CHOOSE e \in 0 .. a :
             /\ a < 2 ^ (MantissaBits + e)
             /\ (e = 0 \/ a >= 2 ^ (MantissaBits + e - 1))
      q == 2 ^ e
      lo == (a \div q) * q
      r == a - lo
      res == IF 2 * r < q THEN lo
             ELSE IF 2 * r > q THEN lo + q
             ELSE IF (lo \div q) % 2 = 0 THEN lo ELSE lo + q
  IN IF x < 0 THEN -res ELSE res

\* ToNumber of an amount in an arithmetic expression: null counts as 0.
ToNumber(x) == IF x.k = "null" THEN Zero ELSE x

\* a + b and a - b on JavaScript numbers.
JsAdd(a, b) ==
  IF IsNaN(ToNumber(a)) \/ IsNaN(ToNumber(b)) THEN NaN
  ELSE Num(Round(ToNumber(a).v + ToNumber(b).v))
JsSub(a, b) ==
  IF IsNaN(ToNumber(a)) \/ IsNaN(ToNumber(b)) THEN NaN
  ELSE Num(Round(ToNumber(a).v - ToNumber(b).v))

\* String.prototype.trim on the smart-input texts of the model.
Trim(s) == IF s = " " THEN "" ELSE s

(***************************************************************************)
(* Dates.                                                                  *)
(***************************************************************************)
IsoString(t) == [fmt |-> "iso", t |-> t]
LocalString(w) == [fmt |-> "local", t |-> w]
NoDate == [fmt |-> "invalid", t |-> 0]

\* new Date(s) is a valid date.
DateValid(s) == s.fmt # "invalid"

\* new Date(s).getTime(): an ISO string is read as UTC, a datetime-local
\* string as local wall-clock time.
DateTime(s) == IF s.fmt = "local" THEN s.t - TzShift ELSE s.t

\* The local calendar: a day has TicksPerDay ticks, a month DaysPerMonth days,
\* a year MonthsPerYear months; year 0 begins at local wall-clock reading 0.
TicksPerMonth == DaysPerMonth * TicksPerDay
TicksPerYear == MonthsPerYear * TicksPerMonth

\* new Date(s).getFullYear(), .getMonth() (0-based) and .getDate() (1-based), in
\* local time, of a valid date string s.
GetFullYear(s) == (DateTime(s) + TzShift) \div TicksPerYear
GetMonth(s) == ((DateTime(s) + TzShift) % TicksPerYear) \div TicksPerMonth
GetDate(s) == (((DateTime(s) + TzShift) % TicksPerMonth) \div TicksPerDay) + 1

\* The instant (UTC ticks) whose local reading is tick h of day d (1-based) of
\* month m (0-based) of year y.
LocalInstant(y, m, d, h) ==
  ((y * MonthsPerYear + m) * DaysPerMonth + (d - 1)) * TicksPerDay + h - TzShift

\* d.setMinutes(d.getMinutes() - d.getTimezoneOffset()); d.toISOString().slice(0, 16)
\* for the instant t: the datetime-local text of t.
ToLocalInput(t) == LocalString(t + TzShift)

\* new Date(date).toISOString() of the form's date text.
LocalInputToIso(s) == IsoString(DateTime(s))

(***************************************************************************)
(* The category catalog (the part of it the form and the smart parse       *)
(* name: the first expense category, and the two fallback categories).     *)
(***************************************************************************)
EXPENSE_CATEGORIES ==
  << [id |-> "food", name |-> "Food & Dining", type |-> "EXPENSE"],
     [id |-> "shopping", name |-> "Shopping", type |-> "EXPENSE"] >>

INCOME_CATEGORIES ==
  << [id |-> "other_income", name |-> "Other", type |-> "INCOME"] >>

ALL_CATEGORIES == EXPENSE_CATEGORIES \o INCOME_CATEGORIES

CategoryIds == { ALL_CATEGORIES[i].id : i \in DOMAIN ALL_CATEGORIES }

TransactionTypes == {"EXPENSE", "INCOME"}

Languages == {"en", "de", "zh"}

\* editingTransaction = null
NoTransaction ==
  [id |-> "", amount |-> JNull, categoryId |-> "", date |-> NoDate,
   note |-> "", type |-> ""]

(***************************************************************************)
(* localStorage entries.                                                   *)
(***************************************************************************)
EmptyMap == [c \in {} |-> Zero]

\* getItem returns null
AbsentTx == [present |-> FALSE, parses |-> FALSE, isArray |-> FALSE, items |-> <<>>]
AbsentMap == [present |-> FALSE, parses |-> FALSE, map |-> EmptyMap]
AbsentText == [present |-> FALSE, text |-> ""]

\* a text JSON.parse rejects
GarbageTx == [present |-> TRUE, parses |-> FALSE, isArray |-> FALSE, items |-> <<>>]
GarbageMap == [present |-> TRUE, parses |-> FALSE, map |-> EmptyMap]

\* a JSON text that parses to something that is no array, such as {} or 5
NonArrayTx == [present |-> TRUE, parses |-> TRUE, isArray |-> FALSE, items |-> <<>>]

ArrayText(items) == [present |-> TRUE, parses |-> TRUE, isArray |-> TRUE, items |-> items]
MapText(m) == [present |-> TRUE, parses |-> TRUE, map |-> m]
Text(s) == [present |-> TRUE, text |-> s]

\* JSON.stringify of a number: NaN (and null) are written as null.
JsonNumber(x) == IF IsNumber(x) THEN x ELSE JNull

\* JSON.stringify(transactions)
StringifyTransactions(txs) ==
  ArrayText([i \in DOMAIN txs |-> [txs[i] EXCEPT !.amount = JsonNumber(@)]])

\* JSON.stringify(budgets)
StringifyBudgets(b) == MapText([c \in DOMAIN b |-> JsonNumber(b[c])])

EmptyStorage ==
  [transactions |-> AbsentTx, budgets |-> AbsentMap,
   savingsGoal |-> AbsentText, language |-> AbsentText]

\* aiInsight: null, or a string
NoInsight == [isNull |-> TRUE, text |-> ""]
InsightText(s) == [isNull |-> FALSE, text |-> s]

AppViews == {"HOME", "STATS", "AI_INSIGHTS"}

\* No file was exported yet.
NoDownload == [saved |-> FALSE, bom |-> FALSE, content |-> <<>>]

(***************************************************************************)
(* Derived state: the totals of the home view.                             *)
(***************************************************************************)
\* txs.reduce((acc, t) => t.type === INCOME ? acc + t.amount : acc - t.amount, 0)
\* over the first n transactions.
RECURSIVE SignedSum(_, _)
SignedSum(txs, n) ==
  IF n = 0 THEN Zero
  ELSE IF txs[n].type = "INCOME" THEN JsAdd(SignedSum(txs, n - 1), txs[n].amount)
                                 ELSE JsSub(SignedSum(txs, n - 1), txs[n].amount)

\* txs.reduce((acc, t) => acc + t.amount, 0) over the first n transactions.
RECURSIVE AmountSum(_, _)
AmountSum(txs, n) ==
  IF n = 0 THEN Zero ELSE JsAdd(AmountSum(txs, n - 1), txs[n].amount)

\* txs.filter(t => t.type === ty)
FilterType(txs, ty) == SelectSeq(txs, LAMBDA t : t.type = ty)

TotalBalance(txs) == SignedSum(txs, Len(txs))
TotalIncome(txs) == AmountSum(FilterType(txs, "INCOME"), Len(FilterType(txs, "INCOME")))
TotalExpense(txs) == AmountSum(FilterType(txs, "EXPENSE"), Len(FilterType(txs, "EXPENSE")))

\* currentMonthSavings as computed by a render at the clock reading `clock`:
\* income - expense of the transactions whose local month and year are those of
\* the clock; getMonth() of an invalid date is NaN, which equals nothing.
CurrentMonthSavings(txs, clock) ==
  LET currentMonthTransactions ==
        SelectSeq(txs, LAMBDA t :
          /\ DateValid(t.date)
          /\ GetMonth(t.date) = GetMonth(IsoString(clock))
          /\ GetFullYear(t.date) = GetFullYear(IsoString(clock)))
  IN JsSub(TotalIncome(currentMonthTransactions), TotalExpense(currentMonthTransactions))

(***************************************************************************)
(* The service worker's values: URLs, requests, responses, caches.         *)
(***************************************************************************)
CACHE_NAME == "smart-ledger-v1"

\* A URL is its scheme and the rest of it.
Url(scheme, rest) == [scheme |-> scheme, rest |-> rest]

\* url.startsWith('http')
StartsWithHttp(url) == url.scheme \in {"http", "https"}

\* Two of the URLs the install caches: a page of the origin and a script of a CDN.
URLS_TO_CACHE == { Url("https", "/index.html"), Url("https", "cdn.tailwindcss.com") }

\* A response: its status, its type and what it carries.
Resp(status, ty, body) == [status |-> status, type |-> ty, body |-> body]

\* fetch() rejected, or caches.match() found nothing.
NoResponse == [status |-> -1, type |-> "none", body |-> ""]

\* A cache without entries, a CacheStorage without caches.
EmptyCache == [u \in {} |-> NoResponse]
NoCaches == [c \in {} |-> EmptyCache]

\* No fetch event was handled yet.
NoFetch ==
  [method |-> "", url |-> Url("", ""), responded |-> FALSE, fetched |-> FALSE,
   response |-> NoResponse]

VARIABLES
  now,                 \* the wall clock, in ticks
  pc,                  \* startup position: "mount", "loaded", "flushed", "running"
  fatal,               \* the uncaught render/effect error that unmounted the app, or "none"
  handlerError,        \* the last handler ended by throwing
  quotaExceeded,       \* localStorage.setItem raises
  storage,             \* localStorage
  transactions, transactionsIsArray, budgets, savingsGoal, language,
  showAddModal, showSettingsModal, showBudgetModal,
  editingTransaction, amount, note, selectedCategory, type, date,
  aiInput, isAiProcessing, isOnline,
  inflight,            \* smart-parse calls awaiting their result: [fresh, stale]
  currentView, sortOption,
  aiInsight, isLoadingInsight,
  insightCalls,        \* getFinancialInsights calls awaiting their result
  download,            \* the file the last export handed to the browser
  currentMonthSavings, \* the value useMemo holds for currentMonthSavings
  swState,             \* the service worker: "parsed", "installed", "activated", "redundant"
  cacheStorage,        \* the origin's CacheStorage: cache name -> (url -> response)
  lastFetch,           \* what the fetch listener did with the last fetch event
  lastOp               \* the handler or effect that ran last

storeVars == <<transactions, transactionsIsArray, budgets, savingsGoal, language>>
formFields == <<amount, note, selectedCategory, type, date>>
formVars == <<showAddModal, editingTransaction, amount, note, selectedCategory, type, date, aiInput>>
modalVars == <<showSettingsModal, showBudgetModal>>
aiVars == <<isAiProcessing, inflight>>
envVars == <<now, quotaExceeded, isOnline>>
viewVars == <<currentView, sortOption, aiInsight, isLoadingInsight, insightCalls, download>>
memoVars == <<currentMonthSavings>>
swVars == <<swState, cacheStorage, lastFetch>>
vars == <<now, pc, fatal, handlerError, quotaExceeded, storage,
          transactions, transactionsIsArray, budgets, savingsGoal, language,
          showAddModal, showSettingsModal, showBudgetModal,
          editingTransaction, amount, note, selectedCategory, type, date,
          aiInput, isAiProcessing, isOnline, inflight,
          currentView, sortOption, aiInsight, isLoadingInsight, insightCalls, download,
          currentMonthSavings, swState, cacheStorage, lastFetch, lastOp>>

(***************************************************************************)
(* Construction: the state of the first render, before any effect ran.     *)
(***************************************************************************)
InitApp(clock, initialStorages) ==
  /\ now = clock
  /\ pc = "mount"
  /\ fatal = "none"
  /\ handlerError = FALSE
  /\ quotaExceeded = FALSE
  /\ storage \in initialStorages
  /\ transactions = <<>>
  /\ transactionsIsArray = TRUE
  /\ budgets = EmptyMap
  /\ savingsGoal = Zero
  /\ language = "en"
  /\ showAddModal = FALSE
  /\ showSettingsModal = FALSE
  /\ showBudgetModal = FALSE
  /\ editingTransaction = NoTransaction
  /\ amount = ""
  /\ note = ""
  /\ selectedCategory = EXPENSE_CATEGORIES[1].id
  /\ type = "EXPENSE"
  /\ date = ToLocalInput(now)
  /\ aiInput = ""
  /\ isAiProcessing = FALSE
  /\ isOnline = TRUE
  /\ inflight = [fresh |-> 0, stale |-> 0]
  /\ currentView = "HOME"
  /\ sortOption = "DATE_DESC"
  /\ aiInsight = NoInsight
  /\ isLoadingInsight = FALSE
  /\ insightCalls = 0
  /\ download = NoDownload
  /\ currentMonthSavings = CurrentMonthSavings(<<>>, clock)
  /\ lastOp = "construct"

\* The application, started at the clock reading `clock` on one of the given
\* storages, with a service worker that is not installed yet.
InitAt(clock, initialStorages) ==
  /\ InitApp(clock, initialStorages)
  /\ swState = "parsed"
  /\ cacheStorage = NoCaches
  /\ lastFetch = NoFetch

InitWith(initialStorages) == InitAt(1, initialStorages)

(***************************************************************************)
(* The save effects: localStorage.setItem of each state whose dependency   *)
(* changed in the commit.                                                  *)
(***************************************************************************)
SaveEffects(base, keys, txs, b, g, l) ==
  [transactions |-> IF "transactions" \in keys
                      THEN StringifyTransactions(txs) ELSE base.transactions,
   budgets |-> IF "budgets" \in keys THEN StringifyBudgets(b) ELSE base.budgets,
   savingsGoal |-> IF "savingsGoal" \in keys THEN Text(NumToString(g)) ELSE base.savingsGoal,
   language |-> IF "language" \in keys THEN Text(l) ELSE base.language]

\* The commit of a handler's state updates: React flushes the save effects of
\* the commit before it handles the next event.  setItem has no handler around
\* it, so a raising setItem leaves the effect as an uncaught error, on which
\* React unmounts the tree.
Commit(base, keys, txs, b, g, l) ==
  IF keys # {} /\ quotaExceeded
    THEN /\ storage' = base
         /\ fatal' = "QuotaExceededError"
    ELSE /\ storage' = SaveEffects(base, keys, txs, b, g, l)
         /\ fatal' = fatal

\* The render of the home view throws: transactions.reduce on a value that is no
\* array, or amount.toFixed on a transaction whose amount is null.
RenderThrows(isArray, txs) ==
  \/ ~isArray
  \/ \E i \in DOMAIN txs : txs[i].amount = JNull

(***************************************************************************)
(* Startup: the mount effects.                                             *)
(***************************************************************************)
\* What the load effect makes of the storage.
LoadedState(st) ==
  [transactions |->
     IF st.transactions.present /\ st.transactions.parses /\ st.transactions.isArray
       THEN st.transactions.items ELSE <<>>,
   transactionsIsArray |->
     ~(st.transactions.present /\ st.transactions.parses /\ ~st.transactions.isArray),
   budgets |->
     IF st.budgets.present /\ st.budgets.parses THEN st.budgets.map ELSE EmptyMap,
   savingsGoal |->
     IF st.savingsGoal.present /\ st.savingsGoal.text # ""
       THEN ParseFloat(st.savingsGoal.text) ELSE Zero,
   language |->
     IF st.language.present /\ st.language.text \in Languages
       THEN st.language.text ELSE "en"]

Running == pc = "running" /\ fatal = "none"

LoadEffect ==
  /\ pc = "mount" /\ fatal = "none"
  /\ LET l == LoadedState(storage) IN
       /\ transactions' = l.transactions
       /\ transactionsIsArray' = l.transactionsIsArray
       /\ budgets' = l.budgets
       /\ savingsGoal' = l.savingsGoal
       /\ language' = l.language
  /\ pc' = "loaded"
  /\ lastOp' = "load"
  /\ UNCHANGED <<envVars, fatal, handlerError, storage, formVars, modalVars, aiVars>>
  /\ UNCHANGED <<viewVars, memoVars>>
  /\ UNCHANGED swVars

\* The save effects of the first commit run after the load effect, with the
\* values of the first render.
InitialSaveEffects ==
  /\ pc = "loaded" /\ fatal = "none"
  /\ Commit(storage, {"transactions", "budgets", "savingsGoal", "language"},
            <<>>, EmptyMap, Zero, "en")
  /\ pc' = "flushed"
  /\ lastOp' = "initialSave"
  /\ UNCHANGED <<envVars, handlerError, storeVars, formVars, modalVars, aiVars>>
  /\ UNCHANGED <<viewVars, memoVars>>
  /\ UNCHANGED swVars

\* The render with the loaded state, and the save effects of its commit.
Rerender ==
  /\ pc = "flushed" /\ fatal = "none"
  /\ IF RenderThrows(transactionsIsArray, transactions)
       THEN /\ fatal' = "TypeError"
            /\ storage' = storage
       ELSE Commit(storage,
                   {k \in {"transactions"} : transactions # <<>>}
                     \cup {k \in {"budgets"} : budgets # EmptyMap}
                     \cup {k \in {"savingsGoal"} : ~ObjectIs(savingsGoal, Zero)}
                     \cup {k \in {"language"} : language # "en"},
                   transactions, budgets, savingsGoal, language)
  \* the loaded array is a new value of the dependency of the memo
  /\ currentMonthSavings' = IF RenderThrows(transactionsIsArray, transactions)
                              THEN currentMonthSavings
                              ELSE CurrentMonthSavings(transactions, now)
  /\ pc' = "running"
  /\ lastOp' = "rerender"
  /\ UNCHANGED <<envVars, handlerError, storeVars, formVars, modalVars, aiVars>>
  /\ UNCHANGED viewVars
  /\ UNCHANGED swVars

(***************************************************************************)
(* The environment.                                                        *)
(***************************************************************************)
Tick ==
  /\ now < MaxClock
  /\ now' = now + 1
  /\ lastOp' = "other"
  /\ UNCHANGED <<pc, fatal, handlerError, quotaExceeded, isOnline, storage, storeVars,
                 formVars, modalVars, aiVars>>
  /\ UNCHANGED <<viewVars, memoVars>>
  /\ UNCHANGED swVars

(***************************************************************************)
(* The add/edit form.                                                      *)
(***************************************************************************)
\* A smart-parse call in flight is stale once the form it was requested from
\* was closed, reset or reopened.
Dismiss(calls) == [fresh |-> 0, stale |-> calls.fresh + calls.stale]

\* resetForm()
ResetForm ==
  /\ editingTransaction' = NoTransaction
  /\ amount' = ""
  /\ note' = ""
  /\ type' = "EXPENSE"
  /\ selectedCategory' = EXPENSE_CATEGORIES[1].id
  /\ aiInput' = ""
  /\ date' = ToLocalInput(now)

\* The + button of the navigation bar.
OpenAddModal ==
  /\ Running /\ ~showAddModal /\ ~showSettingsModal /\ ~showBudgetModal
  /\ ResetForm
  /\ showAddModal' = TRUE
  /\ inflight' = Dismiss(inflight)
  /\ lastOp' = "other"
  /\ UNCHANGED <<envVars, pc, fatal, handlerError, storage, storeVars, modalVars,
                 isAiProcessing>>
  /\ UNCHANGED <<viewVars, memoVars>>
  /\ UNCHANGED swVars

\* handleTransactionClick(transactions[i])
HandleTransactionClick(i) ==
  /\ Running /\ ~showAddModal /\ ~showSettingsModal /\ ~showBudgetModal
  /\ currentView = "HOME"
  /\ i \in DOMAIN transactions
  /\ LET transaction == transactions[i] IN
       /\ editingTransaction' = transaction
       /\ amount' = NumToString(transaction.amount)
       /\ note' = transaction.note
       /\ selectedCategory' = transaction.categoryId
       /\ type' = transaction.type
       /\ date' = IF DateValid(transaction.date)
                    THEN ToLocalInput(DateTime(transaction.date))
                    ELSE ToLocalInput(now)
  /\ showAddModal' = TRUE
  /\ inflight' = Dismiss(inflight)
  /\ lastOp' = "click"
  /\ UNCHANGED <<envVars, pc, fatal, handlerError, storage, storeVars, modalVars,
                 aiInput, isAiProcessing>>
  /\ UNCHANGED <<viewVars, memoVars>>
  /\ UNCHANGED swVars

\* The backdrop, the close button and the Escape key.
CloseAddModal ==
  /\ Running /\ showAddModal
  /\ showAddModal' = FALSE
  /\ inflight' = Dismiss(inflight)
  /\ lastOp' = "other"
  /\ UNCHANGED <<envVars, pc, fatal, handlerError, storage, storeVars, modalVars,
                 editingTransaction, formFields, aiInput, isAiProcessing>>
  /\ UNCHANGED <<viewVars, memoVars>>
  /\ UNCHANGED swVars

SetAmount(v) ==
  /\ Running /\ showAddModal
  /\ amount' = v
  /\ lastOp' = "other"
  /\ UNCHANGED <<envVars, pc, fatal, handlerError, storage, storeVars, modalVars, aiVars,
                 showAddModal, editingTransaction, note, selectedCategory, type, date, aiInput>>
  /\ UNCHANGED <<viewVars, memoVars>>
  /\ UNCHANGED swVars

SetNote(v) ==
  /\ Running /\ showAddModal
  /\ note' = v
  /\ lastOp' = "other"
  /\ UNCHANGED <<envVars, pc, fatal, handlerError, storage, storeVars, modalVars, aiVars,
                 showAddModal, editingTransaction, amount, selectedCategory, type, date, aiInput>>
  /\ UNCHANGED <<viewVars, memoVars>>
  /\ UNCHANGED swVars

SetType(v) ==
  /\ Running /\ showAddModal
  /\ type' = v
  /\ lastOp' = "other"
  /\ UNCHANGED <<envVars, pc, fatal, handlerError, storage, storeVars, modalVars, aiVars,
                 showAddModal, editingTransaction, amount, note, selectedCategory, date, aiInput>>
  /\ UNCHANGED <<viewVars, memoVars>>
  /\ UNCHANGED swVars

\* The category grid shows the categories of the form's current type.
SetSelectedCategory(i) ==
  /\ Running /\ showAddModal
  /\ LET shown == IF type = "EXPENSE" THEN EXPENSE_CATEGORIES ELSE INCOME_CATEGORIES IN
       /\ i \in DOMAIN shown
       /\ selectedCategory' = shown[i].id
  /\ lastOp' = "other"
  /\ UNCHANGED <<envVars, pc, fatal, handlerError, storage, storeVars, modalVars, aiVars,
                 showAddModal, editingTransaction, amount, note, type, date, aiInput>>
  /\ UNCHANGED <<viewVars, memoVars>>
  /\ UNCHANGED swVars

SetDate(v) ==
  /\ Running /\ showAddModal
  /\ date' = v
  /\ lastOp' = "other"
  /\ UNCHANGED <<envVars, pc, fatal, handlerError, storage, storeVars, modalVars, aiVars,
                 showAddModal, editingTransaction, amount, note, selectedCategory, type, aiInput>>
  /\ UNCHANGED <<viewVars, memoVars>>
  /\ UNCHANGED swVars

SetAiInput(v) ==
  /\ Running /\ showAddModal
  /\ aiInput' = v
  /\ lastOp' = "other"
  /\ UNCHANGED <<envVars, pc, fatal, handlerError, storage, storeVars, modalVars, aiVars,
                 showAddModal, editingTransaction, formFields>>
  /\ UNCHANGED <<viewVars, memoVars>>
  /\ UNCHANGED swVars

(***************************************************************************)
(* The transaction store.                                                  *)
(***************************************************************************)
\* The fields handleSaveTransaction takes from the form.
FormFields(a, c, d, n, t) ==
  [amount |-> ParseFloat(a), categoryId |-> c, date |-> LocalInputToIso(d),
   note |-> n, type |-> t]

\* UpdateTransactions with the type left out of the replaced fields.
UpdateTransactionsKeepingType(prev, id, f) ==
  [i \in DOMAIN prev |->
     IF prev[i].id = id
       THEN [prev[i] EXCEPT !.amount = f.amount, !.categoryId = f.categoryId,
                            !.date = f.date, !.note = f.note]
       ELSE prev[i]]

\* prev.map(t => t.id === id ? {...t, amount, categoryId, date, note, type} : t)
UpdateTransactions(prev, id, f) ==
  [i \in DOMAIN prev |->
     IF prev[i].id = id
       THEN [prev[i] EXCEPT !.amount = f.amount, !.categoryId = f.categoryId,
                            !.date = f.date, !.note = f.note, !.type = f.type]
       ELSE prev[i]]

\* The transaction a create builds: its id is Date.now().toString().
NewTransaction(clock, f) ==
  [id |-> ToString(clock), amount |-> f.amount, categoryId |-> f.categoryId,
   date |-> f.date, note |-> f.note, type |-> f.type]

\* [newTransaction, ...prev]
CreateTransaction(prev, clock, f) == <<NewTransaction(clock, f)>> \o prev

\* prev.filter(t => t.id !== idToDelete)
DeleteTransaction(prev, idToDelete) ==
  SelectSeq(prev, LAMBDA t : t.id # idToDelete)

\* if (!amount || parseFloat(amount) <= 0) return;
AmountRejected(a) == a = "" \/ NumLeq(ParseFloat(a), Zero)

HandleSaveTransaction ==
  /\ Running /\ showAddModal
  /\ IF AmountRejected(amount)
       THEN /\ lastOp' = "other"
            /\ handlerError' = FALSE
            /\ UNCHANGED <<fatal, storage, transactions, formVars, inflight, memoVars>>
       ELSE IF ~DateValid(date)
         \* new Date(date).toISOString() throws a RangeError
         THEN /\ lastOp' = "saveThrew"
              /\ handlerError' = TRUE
              /\ UNCHANGED <<fatal, storage, transactions, formVars, inflight, memoVars>>
         ELSE LET f == FormFields(amount, selectedCategory, date, note, type)
                  next == IF editingTransaction # NoTransaction
                            THEN UpdateTransactions(transactions, editingTransaction.id, f)
                            ELSE CreateTransaction(transactions, now, f)
              IN /\ editingTransaction = NoTransaction => Len(transactions) < MaxTx
                 /\ transactions' = next
                 /\ currentMonthSavings' = CurrentMonthSavings(next, now)
                 /\ lastOp' = IF editingTransaction # NoTransaction THEN "update" ELSE "create"
                 /\ handlerError' = FALSE
                 /\ ResetForm
                 /\ showAddModal' = FALSE
                 /\ inflight' = Dismiss(inflight)
                 /\ Commit(storage, {"transactions"}, next, budgets, savingsGoal, language)
  /\ UNCHANGED <<envVars, pc, transactionsIsArray, budgets, savingsGoal, language,
                 modalVars, isAiProcessing>>
  /\ UNCHANGED viewVars
  /\ UNCHANGED swVars

\* handleDeleteTransaction(): the button is shown while a transaction is edited;
\* window.confirm may be answered either way.
HandleDeleteTransaction(confirmed) ==
  /\ Running /\ showAddModal
  /\ editingTransaction # NoTransaction
  /\ IF confirmed
       THEN LET next == DeleteTransaction(transactions, editingTransaction.id) IN
              /\ transactions' = next
              /\ currentMonthSavings' = CurrentMonthSavings(next, now)
              /\ showAddModal' = FALSE
              /\ ResetForm
              /\ inflight' = Dismiss(inflight)
              /\ lastOp' = "delete"
              /\ Commit(storage, {"transactions"}, next, budgets, savingsGoal, language)
       ELSE /\ lastOp' = "other"
            /\ UNCHANGED <<fatal, storage, transactions, formVars, inflight, memoVars>>
  /\ UNCHANGED <<envVars, pc, handlerError, transactionsIsArray, budgets, savingsGoal,
                 language, modalVars, isAiProcessing>>
  /\ UNCHANGED viewVars
  /\ UNCHANGED swVars

(***************************************************************************)
(* The smart parse (handleSmartParse over parseTransactionInput).          *)
(***************************************************************************)
\* What the code reads of a value of the remote answer: whether it is truthy
\* and its toString().
Absent == [truthy |-> FALSE, str |-> ""]
Given(s) == [truthy |-> TRUE, str |-> s]

\* The remote date: missing, a text that is no date, or a "YYYY-MM-DD" day, which
\* new Date reads as that day's midnight in UTC.
AbsentDate == [fmt |-> "absent", t |-> 0]
DayString(d) == IsoString(d * TicksPerDay)

\* String.prototype.toLowerCase on the category names of the model.
ToLowerCase(s) ==
  CASE s = "Food & Dining" -> "food & dining"
    [] s = "Shopping" -> "shopping"
    [] s = "Other" -> "other"
    [] s = "Groceries" -> "groceries"
    [] OTHER -> s

\* ALL_CATEGORIES.find(c => c.name.toLowerCase() === result.categoryName?.toLowerCase())
FindCategory(categoryName) ==
  { i \in DOMAIN ALL_CATEGORIES :
      /\ categoryName.truthy
      /\ ToLowerCase(ALL_CATEGORIES[i].name) = ToLowerCase(categoryName.str)
      /\ \A j \in DOMAIN ALL_CATEGORIES :
           (j < i) => ToLowerCase(ALL_CATEGORIES[j].name) # ToLowerCase(categoryName.str) }

NullResult ==
  [isNull |-> TRUE, amount |-> Absent, categoryId |-> "", type |-> "",
   note |-> Absent, date |-> AbsentDate]

\* parseTransactionInput: r is the remote answer, r.ok says that the call and
\* JSON.parse of its text both succeeded.
ParseTransactionInput(r, clock) ==
  IF ~r.ok \/ ~r.amount.truthy
    THEN NullResult
    ELSE LET found == FindCategory(r.categoryName) IN
      [isNull |-> FALSE,
       amount |-> r.amount,
       categoryId |-> IF found # {}
                        THEN ALL_CATEGORIES[CHOOSE i \in found : TRUE].id
                        ELSE IF r.type = "INCOME" THEN "other_income" ELSE "shopping",
       type |-> IF r.type = "INCOME" THEN "INCOME" ELSE "EXPENSE",
       note |-> r.note,
       date |-> IF r.date.fmt = "absent" THEN IsoString(clock) ELSE r.date]

\* d = new Date(result.date); d.setHours(now.getHours(), now.getMinutes());
\* d.setMinutes(d.getMinutes() - d.getTimezoneOffset()); d.toISOString().slice(0, 16)
SmartDate(s, clock) ==
  LET localDay == (DateTime(s) + TzShift) \div TicksPerDay
      timeOfDay == (clock + TzShift) % TicksPerDay
  IN LocalString(localDay * TicksPerDay + timeOfDay)

\* The first half of handleSmartParse, up to the await.  The Enter key of the
\* smart input calls it whatever isAiProcessing is; only the send button is
\* disabled while isAiProcessing.
SmartParseRequest ==
  /\ Running /\ showAddModal
  /\ isOnline
  /\ Trim(aiInput) # ""
  /\ inflight.fresh + inflight.stale < MaxInflight
  /\ isAiProcessing' = TRUE
  /\ inflight' = [inflight EXCEPT !.fresh = @ + 1]
  /\ lastOp' = "other"
  /\ UNCHANGED <<envVars, pc, fatal, handlerError, storage, storeVars, modalVars, formVars>>
  /\ UNCHANGED <<viewVars, memoVars>>
  /\ UNCHANGED swVars

\* The form fields as handleSmartParse leaves them when the call settles with
\* the remote answer r at the clock reading `clock`.
SmartParseFields(r, clock) ==
  LET result == ParseTransactionInput(r, clock) IN
    IF ~result.isNull /\ result.amount.truthy
      THEN [amount |-> result.amount.str,
            selectedCategory |-> IF result.categoryId # "" THEN result.categoryId
                                                           ELSE selectedCategory,
            type |-> IF result.type # "" THEN result.type ELSE type,
            note |-> IF result.note.truthy THEN result.note.str ELSE note,
            date |-> IF DateValid(result.date) THEN SmartDate(result.date, clock)
                                               ELSE date]
      ELSE [amount |-> amount, selectedCategory |-> selectedCategory, type |-> type,
            note |-> note, date |-> date]

\* The second half: the call settles with the remote answer r.  `stale` tells
\* which of the calls in flight settles.
SmartParseSettle(stale, r) ==
  /\ Running
  /\ IF stale THEN inflight.stale > 0 ELSE inflight.fresh > 0
  /\ inflight' = IF stale THEN [inflight EXCEPT !.stale = @ - 1]
                          ELSE [inflight EXCEPT !.fresh = @ - 1]
  /\ isAiProcessing' = FALSE
  /\ LET f == SmartParseFields(r, now) IN
       /\ amount' = f.amount
       /\ selectedCategory' = f.selectedCategory
       /\ type' = f.type
       /\ note' = f.note
       /\ date' = f.date
  /\ lastOp' = IF stale THEN "parseSettledStale" ELSE "parseSettled"
  /\ UNCHANGED <<envVars, pc, fatal, handlerError, storage, storeVars, modalVars,
                 showAddModal, editingTransaction, aiInput>>
  /\ UNCHANGED <<viewVars, memoVars>>
  /\ UNCHANGED swVars

\* The window's online and offline events.
HandleOnline ==
  /\ Running /\ ~isOnline
  /\ isOnline' = TRUE
  /\ lastOp' = "other"
  /\ UNCHANGED <<now, quotaExceeded, pc, fatal, handlerError, storage, storeVars,
                 modalVars, formVars, aiVars>>
  /\ UNCHANGED <<viewVars, memoVars>>
  /\ UNCHANGED swVars

HandleOffline ==
  /\ Running /\ isOnline
  /\ isOnline' = FALSE
  /\ lastOp' = "other"
  /\ UNCHANGED <<now, quotaExceeded, pc, fatal, handlerError, storage, storeVars,
                 modalVars, formVars, aiVars>>
  /\ UNCHANGED <<viewVars, memoVars>>
  /\ UNCHANGED swVars

(***************************************************************************)
(* Settings: budgets, savings goal, language, clear data.                  *)
(***************************************************************************)
OpenSettings ==
  /\ Running /\ ~showAddModal /\ ~showSettingsModal /\ ~showBudgetModal
  /\ showSettingsModal' = TRUE
  /\ showBudgetModal' = showBudgetModal
  /\ lastOp' = "other"
  /\ UNCHANGED <<envVars, pc, fatal, handlerError, storage, storeVars, formVars, aiVars>>
  /\ UNCHANGED <<viewVars, memoVars>>
  /\ UNCHANGED swVars

CloseSettings ==
  /\ Running /\ showSettingsModal
  /\ showSettingsModal' = FALSE
  /\ showBudgetModal' = showBudgetModal
  /\ lastOp' = "other"
  /\ UNCHANGED <<envVars, pc, fatal, handlerError, storage, storeVars, formVars, aiVars>>
  /\ UNCHANGED <<viewVars, memoVars>>
  /\ UNCHANGED swVars

\* The budget button of the settings.
OpenBudgetModal ==
  /\ Running /\ showSettingsModal
  /\ showSettingsModal' = FALSE
  /\ showBudgetModal' = TRUE
  /\ lastOp' = "other"
  /\ UNCHANGED <<envVars, pc, fatal, handlerError, storage, storeVars, formVars, aiVars>>
  /\ UNCHANGED <<viewVars, memoVars>>
  /\ UNCHANGED swVars

CloseBudgetModal ==
  /\ Running /\ showBudgetModal
  /\ showBudgetModal' = FALSE
  /\ showSettingsModal' = showSettingsModal
  /\ lastOp' = "other"
  /\ UNCHANGED <<envVars, pc, fatal, handlerError, storage, storeVars, formVars, aiVars>>
  /\ UNCHANGED <<viewVars, memoVars>>
  /\ UNCHANGED swVars

\* const val = parseFloat(e.target.value); isNaN(val) ? 0 : val
InputNumber(text) == IF IsNaN(ParseFloat(text)) THEN Zero ELSE ParseFloat(text)

\* {...prev, [cat.id]: value}
WithBudget(prev, c, value) ==
  [k \in DOMAIN prev \cup {c} |-> IF k = c THEN value ELSE prev[k]]

\* onChange of the budget input of expense category i.
SetBudget(i, text) ==
  /\ Running /\ showBudgetModal
  /\ i \in DOMAIN EXPENSE_CATEGORIES
  /\ LET next == WithBudget(budgets, EXPENSE_CATEGORIES[i].id, InputNumber(text)) IN
       /\ budgets' = next
       /\ Commit(storage, {"budgets"}, transactions, next, savingsGoal, language)
  /\ lastOp' = "setBudget"
  /\ UNCHANGED <<envVars, pc, handlerError, transactions, transactionsIsArray, savingsGoal,
                 language, formVars, modalVars, aiVars>>
  /\ UNCHANGED <<viewVars, memoVars>>
  /\ UNCHANGED swVars

\* onChange of the savings goal input.
SetSavingsGoal(text) ==
  /\ Running /\ showSettingsModal
  /\ LET next == InputNumber(text) IN
       /\ savingsGoal' = next
       /\ Commit(storage, {k \in {"savingsGoal"} : ~ObjectIs(savingsGoal, next)},
                 transactions, budgets, next, language)
  /\ lastOp' = "setSavingsGoal"
  /\ UNCHANGED <<envVars, pc, handlerError, transactions, transactionsIsArray, budgets,
                 language, formVars, modalVars, aiVars>>
  /\ UNCHANGED <<viewVars, memoVars>>
  /\ UNCHANGED swVars

SetLanguage(lang) ==
  /\ Running /\ showSettingsModal
  /\ language' = lang
  /\ Commit(storage, {k \in {"language"} : language # lang},
            transactions, budgets, savingsGoal, lang)
  /\ lastOp' = "setLanguage"
  /\ UNCHANGED <<envVars, pc, handlerError, transactions, transactionsIsArray, budgets,
                 savingsGoal, formVars, modalVars, aiVars>>
  /\ UNCHANGED <<viewVars, memoVars>>
  /\ UNCHANGED swVars

\* RemoveItems with the removal of the budgets key left out.
RemoveItemsKeepingBudgets(st) ==
  [st EXCEPT !.transactions = AbsentTx, !.savingsGoal = AbsentText]

\* localStorage.removeItem of the three data keys.
RemoveItems(st) ==
  [st EXCEPT !.transactions = AbsentTx, !.budgets = AbsentMap, !.savingsGoal = AbsentText]

\* handleClearData(): window.confirm may be answered either way.
HandleClearData(confirmed) ==
  /\ Running /\ showSettingsModal
  /\ IF confirmed
       THEN /\ transactions' = <<>>
            /\ currentMonthSavings' = CurrentMonthSavings(<<>>, now)
            /\ budgets' = EmptyMap
            /\ savingsGoal' = Zero
            /\ showSettingsModal' = FALSE
            /\ Commit(RemoveItems(storage),
                      {"transactions", "budgets"}
                        \cup {k \in {"savingsGoal"} : ~ObjectIs(savingsGoal, Zero)},
                      <<>>, EmptyMap, Zero, language)
            /\ lastOp' = "clear"
       ELSE /\ lastOp' = "other"
            /\ UNCHANGED <<fatal, storage, transactions, budgets, savingsGoal,
                           showSettingsModal, memoVars>>
  /\ UNCHANGED <<envVars, pc, handlerError, transactionsIsArray, language, showBudgetModal,
                 formVars, aiVars>>
  /\ aiInsight' = IF confirmed THEN NoInsight ELSE aiInsight
  /\ UNCHANGED <<currentView, sortOption, isLoadingInsight, insightCalls, download>>
  /\ UNCHANGED swVars

\* The storage runs full, or is given room again.
StorageQuota(full) ==
  /\ quotaExceeded # full
  /\ quotaExceeded' = full
  /\ lastOp' = "other"
  /\ UNCHANGED <<now, isOnline, pc, fatal, handlerError, storage, storeVars, formVars,
                 modalVars, aiVars>>
  /\ UNCHANGED <<viewVars, memoVars>>
  /\ UNCHANGED swVars

(***************************************************************************)
(* Views and the insight request (handleGenerateInsights over              *)
(* getFinancialInsights).                                                  *)
(***************************************************************************)
\* The buttons of the navigation bar.
SetCurrentView(v) ==
  /\ Running /\ ~showAddModal /\ ~showSettingsModal /\ ~showBudgetModal
  /\ currentView' = v
  /\ lastOp' = "view"
  /\ UNCHANGED <<envVars, pc, fatal, handlerError, storage, storeVars, modalVars, formVars,
                 aiVars, sortOption, aiInsight, isLoadingInsight, insightCalls, download>>
  /\ UNCHANGED memoVars
  /\ UNCHANGED swVars

\* What generateContent does: it throws (ok = FALSE), or it returns a response
\* whose text is undefined (hasText = FALSE) or a string.
Response(ok, hasText, text) == [ok |-> ok, hasText |-> hasText, text |-> text]

\* getFinancialInsights with the fallback for an empty text left out.
GetFinancialInsightsWithoutFallback(response) ==
  IF response.ok
    THEN [rejected |-> FALSE, value |-> response.text]
    ELSE [rejected |-> FALSE, value |-> "Sorry, I couldn't analyze your data right now."]

\* getFinancialInsights: the whole body is inside try/catch, so the promise is
\* never rejected.
GetFinancialInsights(response) ==
  IF response.ok
    THEN [rejected |-> FALSE,
          value |-> IF response.hasText /\ response.text # ""
                      THEN response.text
                      ELSE "Unable to generate insights at the moment."]
    ELSE [rejected |-> FALSE, value |-> "Sorry, I couldn't analyze your data right now."]

\* handleGenerateInsights up to the await.  Its button is rendered in the
\* advisor view while online, not loading and without an insight.
HandleGenerateInsights ==
  /\ Running /\ ~showAddModal /\ ~showSettingsModal /\ ~showBudgetModal
  /\ currentView = "AI_INSIGHTS"
  /\ isOnline /\ ~isLoadingInsight
  /\ aiInsight.isNull \/ aiInsight.text = ""
  /\ isLoadingInsight' = TRUE
  /\ insightCalls' = insightCalls + 1
  /\ lastOp' = "other"
  /\ UNCHANGED <<envVars, pc, fatal, handlerError, storage, storeVars, modalVars, formVars,
                 aiVars, currentView, sortOption, aiInsight, download>>
  /\ UNCHANGED memoVars
  /\ UNCHANGED swVars

\* handleGenerateInsights after the await: the call settles.
InsightSettle(response) ==
  /\ Running
  /\ insightCalls > 0
  /\ insightCalls' = insightCalls - 1
  /\ LET insight == GetFinancialInsights(response) IN
       IF insight.rejected
         THEN /\ handlerError' = TRUE
              /\ UNCHANGED <<aiInsight, isLoadingInsight>>
         ELSE /\ aiInsight' = InsightText(insight.value)
              /\ isLoadingInsight' = FALSE
              /\ handlerError' = FALSE
  /\ lastOp' = "insightSettled"
  /\ UNCHANGED <<envVars, pc, fatal, storage, storeVars, modalVars, formVars, aiVars,
                 currentView, sortOption, download>>
  /\ UNCHANGED memoVars
  /\ UNCHANGED swVars

(***************************************************************************)
(* Derived state of the statistics view (StatsChart).                      *)
(***************************************************************************)
\* Array.prototype.sort with a consistent comparator: the stable order of seq
\* in which element i precedes element j when <<i, j>> \in before, the pairs of
\* indices for which the comparator is negative.
SortedBy(seq, before) ==
  LET n == Len(seq)
      pos(i) == Cardinality({ j \in 1 .. n :
                   \/ <<j, i>> \in before
                   \/ (<<i, j>> \notin before /\ j < i) }) + 1
  IN [k \in 1 .. n |-> seq[CHOOSE i \in 1 .. n : pos(i) = k]]

\* ALL_CATEGORIES.find(c => c.id === curr.categoryId) finds a category.
KnownCategoryAlways(id) == TRUE
KnownCategory(id) == \E i \in DOMAIN ALL_CATEGORIES : ALL_CATEGORIES[i].id = id

\* t(`cat_${category.id}`): the translation table has one name per category,
\* and t returns its key where the table has none.
CatName(id) == id

\* ExpenseEntries with the filter on the type left out.
RECURSIVE ExpenseEntriesOfAnyType(_, _)
ExpenseEntriesOfAnyType(txs, n) ==
  IF n = 0 THEN <<>>
  ELSE LET acc == ExpenseEntriesOfAnyType(txs, n - 1)
           curr == txs[n]
       IN IF ~KnownCategory(curr.categoryId) THEN acc
          ELSE IF \E i \in DOMAIN acc : acc[i].name = CatName(curr.categoryId)
            THEN [i \in DOMAIN acc |->
                    IF acc[i].name = CatName(curr.categoryId)
                      THEN [acc[i] EXCEPT !.value = JsAdd(@, curr.amount)]
                      ELSE acc[i]]
            ELSE Append(acc, [name |-> CatName(curr.categoryId), value |-> curr.amount])

\* The reduce of expenseData over the first n transactions: the expenses of a
\* known category, one entry per category name in order of first occurrence.
RECURSIVE ExpenseEntries(_, _)
ExpenseEntries(txs, n) ==
  IF n = 0 THEN <<>>
  ELSE LET acc == ExpenseEntries(txs, n - 1)
           curr == txs[n]
       IN IF curr.type # "EXPENSE" \/ ~KnownCategory(curr.categoryId) THEN acc
          ELSE IF \E i \in DOMAIN acc : acc[i].name = CatName(curr.categoryId)
            THEN [i \in DOMAIN acc |->
                    IF acc[i].name = CatName(curr.categoryId)
                      THEN [acc[i] EXCEPT !.value = JsAdd(@, curr.amount)]
                      ELSE acc[i]]
            ELSE Append(acc, [name |-> CatName(curr.categoryId), value |-> curr.amount])

\* expenseData: the entries, sorted by value, largest first.
ExpenseData(txs) ==
  LET entries == ExpenseEntries(txs, Len(txs)) IN
    SortedBy(entries, { p \in (DOMAIN entries) \X (DOMAIN entries) :
                          NumGt(entries[p[1]].value, entries[p[2]].value) })

\* date.toLocaleDateString('en-US', {month: 'short', year: '2-digit'}): the month
\* and the last two digits of the year, in local time.
MonthKey(s) == [month |-> GetMonth(s), yy |-> GetFullYear(s) % YearsPerCentury]

\* new Date(date.getFullYear(), date.getMonth(), 1).getTime()
SortKey(s) == LocalInstant(GetFullYear(s), GetMonth(s), 1, 0)

\* The forEach of monthlyData over the first n transactions: one entry per month
\* key, in order of first occurrence (Object.values keeps insertion order).
RECURSIVE MonthlyEntries(_, _)
MonthlyEntries(txs, n) ==
  IF n = 0 THEN <<>>
  ELSE LET acc == MonthlyEntries(txs, n - 1)
           tx == txs[n]
           monthKey == MonthKey(tx.date)
           data == IF \E i \in DOMAIN acc : acc[i].month = monthKey
                     THEN acc
                     ELSE Append(acc, [month |-> monthKey, income |-> Zero, expense |-> Zero,
                                       surplus |-> Zero, sortKey |-> SortKey(tx.date)])
       IN [i \in DOMAIN data |->
             IF data[i].month # monthKey THEN data[i]
             ELSE IF tx.type = "INCOME"
               THEN [data[i] EXCEPT !.income = JsAdd(@, tx.amount),
                                    !.surplus = JsAdd(@, tx.amount)]
               ELSE [data[i] EXCEPT !.expense = JsAdd(@, tx.amount),
                                    !.surplus = JsSub(@, tx.amount)]]

\* monthlyData: the entries sorted by sortKey, ascending.
MonthlyData(txs) ==
  LET entries == MonthlyEntries(txs, Len(txs)) IN
    SortedBy(entries, { p \in (DOMAIN entries) \X (DOMAIN entries) :
                          entries[p[1]].sortKey < entries[p[2]].sortKey })

\* new Date().getFullYear() at the clock reading `clock`.
CurrentYear(clock) == GetFullYear(IsoString(clock))

\* RunningBalance with the year left out of the filter of a month's transactions.
RECURSIVE RunningBalanceAnyYear(_, _, _)
RunningBalanceAnyYear(txs, year, m) ==
  IF m < 0
    THEN LET earlier == SelectSeq(txs, LAMBDA tx : GetFullYear(tx.date) < year)
         IN SignedSum(earlier, Len(earlier))
    ELSE LET monthlyTransactions == SelectSeq(txs, LAMBDA tx : GetMonth(tx.date) = m)
         IN JsAdd(RunningBalanceAnyYear(txs, year, m - 1),
                  SignedSum(monthlyTransactions, Len(monthlyTransactions)))

\* The running balance of netAssetData after month m (0-based) of `year`; before
\* the first month it is the signed sum of the transactions of earlier years.
\* getFullYear() of an invalid date is NaN, which no comparison accepts.
RECURSIVE RunningBalance(_, _, _)
RunningBalance(txs, year, m) ==
  IF m < 0
    THEN LET earlier ==
               SelectSeq(txs, LAMBDA tx : DateValid(tx.date) /\ GetFullYear(tx.date) < year)
         IN SignedSum(earlier, Len(earlier))
    ELSE LET monthlyTransactions ==
               SelectSeq(txs, LAMBDA tx : /\ DateValid(tx.date)
                                          /\ GetFullYear(tx.date) = year
                                          /\ GetMonth(tx.date) = m)
         IN JsAdd(RunningBalance(txs, year, m - 1),
                  SignedSum(monthlyTransactions, Len(monthlyTransactions)))

\* netAssetData: one point per month of `year`.
NetAssetData(txs, year) ==
  [i \in 1 .. MonthsPerYear |-> [month |-> i - 1, netAsset |-> RunningBalance(txs, year, i - 1)]]

(***************************************************************************)
(* Derived state of the home view: the sorted and the grouped list.        *)
(***************************************************************************)
SortOptions ==
  {"DATE_DESC", "DATE_ASC", "AMOUNT_DESC", "AMOUNT_ASC", "TYPE_EXPENSE", "TYPE_INCOME"}

\* new Date(s).getTime() as a sort key.
GetTime(s) == DateTime(s)

\* SortBefore with the date left out of the two type orders.
SortBeforeTypeOnly(option, a, b) ==
  CASE option = "DATE_ASC" -> GetTime(a.date) < GetTime(b.date)
    [] option = "AMOUNT_DESC" -> NumGt(a.amount, b.amount)
    [] option = "AMOUNT_ASC" -> NumGt(b.amount, a.amount)
    [] option = "TYPE_EXPENSE" -> a.type # b.type /\ a.type = "EXPENSE"
    [] option = "TYPE_INCOME" -> a.type # b.type /\ a.type = "INCOME"
    [] OTHER -> GetTime(b.date) < GetTime(a.date)

\* The comparator of each sort option is negative for (a, b).
SortBefore(option, a, b) ==
  CASE option = "DATE_ASC" -> GetTime(a.date) < GetTime(b.date)
    [] option = "AMOUNT_DESC" -> NumGt(a.amount, b.amount)
    [] option = "AMOUNT_ASC" -> NumGt(b.amount, a.amount)
    [] option = "TYPE_EXPENSE" ->
         IF a.type = b.type THEN GetTime(b.date) < GetTime(a.date) ELSE a.type = "EXPENSE"
    [] option = "TYPE_INCOME" ->
         IF a.type = b.type THEN GetTime(b.date) < GetTime(a.date) ELSE a.type = "INCOME"
    [] OTHER -> GetTime(b.date) < GetTime(a.date)

\* The state array after sortedTransactions ran, had sort been called on the
\* state array itself: Array.prototype.sort orders its receiver in place.
SortedInPlace(txs, option) ==
  SortedBy(txs, { p \in (DOMAIN txs) \X (DOMAIN txs) : SortBefore(option, txs[p[1]], txs[p[2]]) })

\* The state array after sortedTransactions ran: sort is called on the copy
\* [...transactions], which leaves its source as it is.
AfterSort(txs, option) == txs

\* sortedTransactions
SortedTransactions(txs, option) ==
  SortedBy(txs, { p \in (DOMAIN txs) \X (DOMAIN txs) : SortBefore(option, txs[p[1]], txs[p[2]]) })

\* SameDay on the UTC reading of the two instants.
SameDayUtc(d1, d2) == DateTime(d1) \div TicksPerDay = DateTime(d2) \div TicksPerDay

\* d1.getFullYear() === d2.getFullYear() && d1.getMonth() === d2.getMonth() &&
\* d1.getDate() === d2.getDate()
SameDay(d1, d2) ==
  /\ GetFullYear(d1) = GetFullYear(d2)
  /\ GetMonth(d1) = GetMonth(d2)
  /\ GetDate(d1) = GetDate(d2)

\* The forEach of groupedTransactions over the first n transactions of the
\* sorted list.
RECURSIVE DailyGroups(_, _)
DailyGroups(sorted, n) ==
  IF n = 0 THEN <<>>
  ELSE LET prev == DailyGroups(sorted, n - 1)
           t == sorted[n]
           groups == IF \E i \in DOMAIN prev : SameDay(prev[i].date, t.date)
                       THEN prev
                       ELSE Append(prev, [date |-> t.date, transactions |-> <<>>,
                                          totalExpense |-> Zero, totalIncome |-> Zero])
           \* groups.find returns the first group of the day
           g == CHOOSE i \in DOMAIN groups :
                  /\ SameDay(groups[i].date, t.date)
                  /\ \A j \in DOMAIN groups : j < i => ~SameDay(groups[j].date, t.date)
       IN [groups EXCEPT
             ![g] = [@ EXCEPT
                       !.transactions = Append(@, t),
                       !.totalExpense = IF t.type = "EXPENSE" THEN JsAdd(@, t.amount) ELSE @,
                       !.totalIncome = IF t.type = "EXPENSE" THEN @ ELSE JsAdd(@, t.amount)]]

\* groupedTransactions
GroupedTransactions(txs, option) ==
  DailyGroups(SortedTransactions(txs, option), Len(txs))

\* onChange of the sort select of the home view.
SetSortOption(option) ==
  /\ Running /\ ~showAddModal /\ ~showSettingsModal /\ ~showBudgetModal
  /\ currentView = "HOME"
  /\ sortOption' = option
  \* the render that follows computes sortedTransactions and groupedTransactions
  /\ transactions' = AfterSort(transactions, option)
  /\ lastOp' = "sort"
  /\ UNCHANGED <<envVars, pc, fatal, handlerError, storage, transactionsIsArray, budgets,
                 savingsGoal, language, modalVars, formVars,
                 aiVars, currentView, aiInsight, isLoadingInsight, insightCalls, download>>
  /\ UNCHANGED memoVars
  /\ UNCHANGED swVars

(***************************************************************************)
(* The CSV export (handleExportCSV).  A text is a sequence of characters;  *)
(* a field that holds no quote, comma or line break is kept as one         *)
(* element.                                                                *)
(***************************************************************************)
\* The characters of the note texts of the model.
Chars(s) ==
  CASE s = "" -> <<>>
    [] s = "lunch" -> <<"l", "u", "n", "c", "h">>
    [] s = "salary" -> <<"s", "a", "l", "a", "r", "y">>
    [] s = "\"" -> <<"\"">>
    [] s = "\"\"" -> <<"\"", "\"">>
    [] s = "say \"hi\"" -> <<"s", "a", "y", " ", "\"", "h", "i", "\"">>
    [] s = "a,b" -> <<"a", ",", "b">>
    [] s = "a\nb" -> <<"a", "\n", "b">>
    [] OTHER -> <<s>>

\* chars.replace(/"/g, '""') with the doubling left out.
ReplaceQuotesByOne(chars) == chars

\* chars.replace(/"/g, '""')
RECURSIVE ReplaceQuotes(_)
ReplaceQuotes(chars) ==
  IF chars = <<>> THEN <<>>
  ELSE (IF Head(chars) = "\"" THEN <<"\"", "\"">> ELSE <<Head(chars)>>)
         \o ReplaceQuotes(Tail(chars))

\* parts.join(sep)
RECURSIVE Join(_, _)
Join(parts, sep) ==
  IF parts = <<>> THEN <<>>
  ELSE IF Len(parts) = 1 THEN parts[1]
  ELSE parts[1] \o sep \o Join(Tail(parts), sep)

\* String(n).padStart(2, '0')
PadStart2(n) == IF n >= 0 /\ n < 10 THEN "0" \o ToString(n) ELSE ToString(n)

\* formattedDate: the local reading of the date; the tick of the day stands for
\* the hour, minutes and seconds are 00.
FormattedDate(s) ==
  IF ~DateValid(s) THEN "NaN-NaN-NaN NaN:NaN:NaN"
  ELSE ToString(GetFullYear(s)) \o "-" \o PadStart2(GetMonth(s) + 1) \o "-"
         \o PadStart2(GetDate(s)) \o " "
         \o PadStart2((DateTime(s) + TzShift) % TicksPerDay) \o ":00:00"

\* ALL_CATEGORIES.find(c => c.id === t.categoryId)?.name || t.categoryId
CategoryLabel(id) ==
  IF KnownCategory(id)
    THEN ALL_CATEGORIES[CHOOSE i \in DOMAIN ALL_CATEGORIES : ALL_CATEGORIES[i].id = id].name
    ELSE id

\* t.amount.toFixed(2) of a number of the model (whole, or NaN)
ToFixed2(x) == IF IsNumber(x) THEN ToString(x.v) \o ".00" ELSE "NaN"

CsvHeaders == << <<"Date">>, <<"Type">>, <<"Category">>, <<"Amount">>, <<"Note">> >>

\* The row of one transaction: its five fields.
CsvRow(t) ==
  << <<FormattedDate(t.date)>>, <<t.type>>, <<CategoryLabel(t.categoryId)>>,
     <<ToFixed2(t.amount)>>,
     <<"\"">> \o ReplaceQuotes(Chars(t.note)) \o <<"\"">> >>

\* [headers, ...rows].map(e => e.join(',')).join('\n')
CsvContent(txs) ==
  Join([i \in 1 .. Len(txs) + 1 |->
          Join(IF i = 1 THEN CsvHeaders ELSE CsvRow(txs[i - 1]), <<",">>)],
       <<"\n">>)

\* handleExportCSV: toFixed on an amount that is null throws before anything is
\* handed to the browser.
HandleExportCSV ==
  /\ Running /\ showSettingsModal
  /\ IF \E i \in DOMAIN transactions : transactions[i].amount = JNull
       THEN /\ handlerError' = TRUE
            /\ lastOp' = "exportThrew"
            /\ UNCHANGED <<download, showSettingsModal>>
       ELSE /\ download' = [saved |-> TRUE, bom |-> TRUE, content |-> CsvContent(transactions)]
            /\ showSettingsModal' = FALSE
            /\ handlerError' = FALSE
            /\ lastOp' = "export"
  /\ UNCHANGED <<envVars, pc, fatal, storage, storeVars, showBudgetModal, formVars, aiVars,
                 currentView, sortOption, aiInsight, isLoadingInsight, insightCalls>>
  /\ UNCHANGED memoVars
  /\ UNCHANGED swVars

(***************************************************************************)
(* The service worker (src/service-worker.js).                             *)
(***************************************************************************)
\* cache.put(url, response) on the cache `name`, which caches.open creates when
\* it does not exist.
CachePut(cs, name, url, response) ==
  LET cache == IF name \in DOMAIN cs THEN cs[name] ELSE EmptyCache
      written == [u \in DOMAIN cache \cup {url} |-> IF u = url THEN response ELSE cache[u]]
  IN [c \in DOMAIN cs \cup {name} |-> IF c = name THEN written ELSE cs[c]]

\* caches.match(request) for a GET request: the entry of the URL in a cache
\* that has one, or nothing.
CachesMatch(cs, url) ==
  IF \E c \in DOMAIN cs : url \in DOMAIN cs[c]
    THEN cs[CHOOSE c \in DOMAIN cs : url \in DOMAIN cs[c]][url]
    ELSE NoResponse

\* cache.addAll accepts a response whose status is an ok status other than 206.
OkStatus(response) ==
  response # NoResponse /\ response.status >= 200 /\ response.status <= 299
    /\ response.status # 206

\* The install listener: caches.open(CACHE_NAME), then cache.addAll, which
\* fetches every URL and writes all of them or none; `network` gives the
\* outcome of each fetch.  A rejected addAll fails the installation.
SwInstall(network) ==
  /\ swState = "parsed"
  /\ LET opened == IF CACHE_NAME \in DOMAIN cacheStorage THEN cacheStorage
                   ELSE [c \in DOMAIN cacheStorage \cup {CACHE_NAME} |->
                           IF c = CACHE_NAME THEN EmptyCache ELSE cacheStorage[c]]
     IN IF \A u \in URLS_TO_CACHE : OkStatus(network[u])
          THEN /\ cacheStorage' =
                    [opened EXCEPT ![CACHE_NAME] =
                       [u \in DOMAIN @ \cup URLS_TO_CACHE |->
                          IF u \in URLS_TO_CACHE THEN network[u] ELSE @[u]]]
               /\ swState' = "installed"
          ELSE /\ cacheStorage' = opened
               /\ swState' = "redundant"
  /\ lastOp' = "swInstall"
  /\ UNCHANGED <<lastFetch, envVars, pc, fatal, handlerError, storage, storeVars, formVars,
                 modalVars, aiVars, viewVars, memoVars>>

\* The activate listener: caches.delete of every cache whose name is not in the
\* whitelist [CACHE_NAME].
SwActivate ==
  /\ swState = "installed"
  /\ cacheStorage' = [c \in DOMAIN cacheStorage \cap {CACHE_NAME} |-> cacheStorage[c]]
  /\ swState' = "activated"
  /\ lastOp' = "swActivate"
  /\ UNCHANGED <<lastFetch, envVars, pc, fatal, handlerError, storage, storeVars, formVars,
                 modalVars, aiVars, viewVars, memoVars>>

\* ValidResponse with the status left out.
ValidResponseOfAnyStatus(response) ==
  response # NoResponse /\ response.type \in {"basic", "cors", "opaque"}

\* !(!response || response.status !== 200 ||
\*   response.type !== 'basic' && response.type !== 'cors' && response.type !== 'opaque')
ValidResponse(response) ==
  /\ response # NoResponse
  /\ response.status = 200
  /\ response.type \in {"basic", "cors", "opaque"}

\* The fetch listener on a request of the given method and URL; `network` is
\* what fetch() gives if it is called (NoResponse: it rejects).
SwFetch(method, url, network) ==
  /\ swState = "activated"
  /\ IF method # "GET"
       \* return without respondWith: the browser handles the request
       THEN /\ lastFetch' = [method |-> method, url |-> url, responded |-> FALSE,
                             fetched |-> FALSE, response |-> NoResponse]
            /\ UNCHANGED cacheStorage
       ELSE LET cached == CachesMatch(cacheStorage, url) IN
         IF cached # NoResponse
           THEN /\ lastFetch' = [method |-> method, url |-> url, responded |-> TRUE,
                                 fetched |-> FALSE, response |-> cached]
                /\ UNCHANGED cacheStorage
           ELSE /\ lastFetch' = [method |-> method, url |-> url, responded |-> TRUE,
                                 fetched |-> TRUE, response |-> network]
                /\ cacheStorage' =
                     IF ValidResponse(network) /\ StartsWithHttp(url)
                       THEN CachePut(cacheStorage, CACHE_NAME, url, network)
                     ELSE IF ValidResponse(network) /\ CACHE_NAME \notin DOMAIN cacheStorage
                       \* caches.open ran before the test of the URL
                       THEN [c \in DOMAIN cacheStorage \cup {CACHE_NAME} |->
                               IF c = CACHE_NAME THEN EmptyCache ELSE cacheStorage[c]]
                     ELSE cacheStorage
  /\ lastOp' = "swFetch"
  /\ UNCHANGED <<swState, envVars, pc, fatal, handlerError, storage, storeVars, formVars,
                 modalVars, aiVars, viewVars, memoVars>>

(***************************************************************************)
(* Inputs.                                                                 *)
(***************************************************************************)
\* What a number input hands to onChange: a decimal numeral, or "" for any
\* text that is none.
AmountInputs == {"", "0", "-5", "12"}
AiInputs == {" ", "lunch 12"}

\* Remote answers: no answer, an answer without amount, and answers whose
\* amount is a number or a text that is no number.
FailedAnswer ==
  [ok |-> FALSE, amount |-> Absent, categoryName |-> Absent, type |-> "",
   note |-> Absent, date |-> AbsentDate]
Answer(a, c, t, n, d) ==
  [ok |-> TRUE, amount |-> a, categoryName |-> c, type |-> t, note |-> n, date |-> d]

CoreAnswers ==
  { Answer(Given("twelve"), Absent, "EXPENSE", Absent, AbsentDate) }

(***************************************************************************)
(* Spec: a fresh installation; the store, the form and the smart parse.    *)
(***************************************************************************)
Init == InitWith({EmptyStorage})

Startup == LoadEffect \/ InitialSaveEffects \/ Rerender

Next ==
  \/ Startup
  \/ Tick
  \/ OpenAddModal
  \/ \E i \in 1 .. MaxTx : HandleTransactionClick(i)
  \/ CloseAddModal
  \/ \E v \in AmountInputs : SetAmount(v)
  \/ \E v \in {"lunch 12"} : SetAiInput(v)
  \/ SmartParseRequest
  \/ \E stale \in BOOLEAN, r \in CoreAnswers : SmartParseSettle(stale, r)
  \/ HandleSaveTransaction
  \/ \E confirmed \in BOOLEAN : HandleDeleteTransaction(confirmed)

Spec == Init /\ [][Next]_vars

(***************************************************************************)
(* SpecEdit: a ledger of three stored transactions, two of them with the   *)
(* same id; opening a transaction, every field of the form, and save.      *)
(***************************************************************************)
EditAmounts == {"7", "12"}
EditNotes == {"", "lunch"}
EditDates == {ToLocalInput(1), ToLocalInput(2)}

StoredLedger ==
  << [id |-> "1", amount |-> Num(12), categoryId |-> "food", date |-> IsoString(1),
      note |-> "", type |-> "EXPENSE"],
     [id |-> "2", amount |-> Num(7), categoryId |-> "other_income", date |-> IsoString(2),
      note |-> "lunch", type |-> "INCOME"],
     [id |-> "1", amount |-> Num(7), categoryId |-> "shopping", date |-> IsoString(1),
      note |-> "", type |-> "EXPENSE"] >>

InitEdit == InitWith({[EmptyStorage EXCEPT !.transactions = ArrayText(StoredLedger)]})

NextEdit ==
  \/ Startup
  \/ \E i \in DOMAIN transactions : HandleTransactionClick(i)
  \/ CloseAddModal
  \/ \E v \in EditAmounts : SetAmount(v)
  \/ \E v \in EditNotes : SetNote(v)
  \/ \E v \in TransactionTypes : SetType(v)
  \/ \E i \in {1} : SetSelectedCategory(i)
  \/ \E v \in EditDates : SetDate(v)
  \/ HandleSaveTransaction

SpecEdit == InitEdit /\ [][NextEdit]_vars

(***************************************************************************)
(* SpecPersist: a fresh installation; creates, the settings (budgets,      *)
(* savings goal, language, clear data) and a storage that can run full.    *)
(***************************************************************************)
\* What a number input hands to onChange.
NumberInputs == {"", "-5", "0", "8"}

NextPersist ==
  \/ Startup
  \/ OpenAddModal
  \/ \E v \in {"12"} : SetAmount(v)
  \/ HandleSaveTransaction
  \/ OpenSettings
  \/ CloseSettings
  \/ OpenBudgetModal
  \/ CloseBudgetModal
  \/ \E i \in {1}, text \in NumberInputs : SetBudget(i, text)
  \/ \E text \in NumberInputs : SetSavingsGoal(text)
  \/ \E lang \in Languages : SetLanguage(lang)
  \/ \E confirmed \in BOOLEAN : HandleClearData(confirmed)
  \/ \E full \in BOOLEAN : StorageQuota(full)

SpecPersist == Init /\ [][NextPersist]_vars

(***************************************************************************)
(* SpecLoad: startup on a storage left by an earlier run or by anything    *)
(* else that writes the origin's localStorage.                             *)
(***************************************************************************)
StoredTransaction(a) ==
  [id |-> "1", amount |-> a, categoryId |-> "food", date |-> IsoString(1),
   note |-> "", type |-> "EXPENSE"]

InitialStorages ==
  [transactions : {AbsentTx, GarbageTx, NonArrayTx, ArrayText(<<>>),
                   ArrayText(<<StoredTransaction(Num(12))>>),
                   ArrayText(<<StoredTransaction(JNull)>>)},
   budgets : {AbsentMap, GarbageMap, MapText(EmptyMap),
              MapText([c \in {"food"} |-> Num(8)])},
   savingsGoal : {AbsentText, Text(""), Text("8"), Text("abc")},
   language : {AbsentText, Text("de"), Text("fr")}]

InitLoad == InitWith(InitialStorages)

NextLoad == Startup

SpecLoad == InitLoad /\ [][NextLoad]_vars

(***************************************************************************)
(* SpecSmart: a storage with one transaction; the form and the smart       *)
(* parse with every shape of remote answer.                                *)
(***************************************************************************)
InitSmart ==
  InitWith({[EmptyStorage EXCEPT
               !.transactions = ArrayText(<<StoredTransaction(Num(12))>>)]})

SmartAnswers ==
  {FailedAnswer} \cup
  { Answer(a, c, t, n, d) :
      a \in {Absent, Given("7"), Given("twelve")},
      c \in {Absent, Given("food & dining"), Given("Groceries")},
      t \in {"", "EXPENSE", "INCOME"},
      n \in {Absent, Given("salary")},
      d \in {AbsentDate, NoDate, DayString(1)} }

NextSmart ==
  \/ Startup
  \/ Tick
  \/ OpenAddModal
  \/ \E i \in 1 .. MaxTx : HandleTransactionClick(i)
  \/ CloseAddModal
  \/ \E v \in AiInputs : SetAiInput(v)
  \/ SmartParseRequest
  \/ \E stale \in BOOLEAN, r \in SmartAnswers : SmartParseSettle(stale, r)
  \/ HandleOnline
  \/ HandleOffline

SpecSmart == InitSmart /\ [][NextSmart]_vars

(***************************************************************************)
(* SpecInsight: the advisor view, the insight request with every outcome   *)
(* of the remote call, and clear data.                                     *)
(***************************************************************************)
Responses ==
  { Response(FALSE, FALSE, ""), Response(TRUE, FALSE, ""), Response(TRUE, TRUE, ""),
    Response(TRUE, TRUE, "Spend less."), Response(TRUE, TRUE, " ") }

NextInsight ==
  \/ Startup
  \/ \E v \in AppViews : SetCurrentView(v)
  \/ HandleOnline
  \/ HandleOffline
  \/ HandleGenerateInsights
  \/ \E response \in Responses : InsightSettle(response)
  \/ OpenSettings
  \/ CloseSettings
  \/ \E lang \in Languages : SetLanguage(lang)
  \/ \E confirmed \in BOOLEAN : HandleClearData(confirmed)

SpecInsight == Init /\ [][NextInsight]_vars

(***************************************************************************)
(* SpecDate: a fresh installation; the form with its date input, which the *)
(* user can clear, and save.                                               *)
(***************************************************************************)
DateInputs == {NoDate, ToLocalInput(1)}

NextDate ==
  \/ Startup
  \/ Tick
  \/ OpenAddModal
  \/ \E i \in 1 .. MaxTx : HandleTransactionClick(i)
  \/ CloseAddModal
  \/ \E v \in {"12"} : SetAmount(v)
  \/ \E v \in DateInputs : SetDate(v)
  \/ HandleSaveTransaction

SpecDate == Init /\ [][NextDate]_vars

(***************************************************************************)
(* SpecTotals: startup on every stored ledger of up to MaxLedger           *)
(* transactions of a small pool; the three views.                          *)
(***************************************************************************)
\* All sequences of at most n elements of S.
SeqsUpTo(S, n) == UNION { [1 .. k -> S] : k \in 0 .. n }

Tx(id, a, c, d, n, t) ==
  [id |-> id, amount |-> Num(a), categoryId |-> c, date |-> d, note |-> n, type |-> t]

LedgerStorages(pool) ==
  { [EmptyStorage EXCEPT !.transactions = ArrayText(l)] : l \in SeqsUpTo(pool, MaxLedger) }

TotalsPool ==
  { Tx("1", a, IF t = "INCOME" THEN "other_income" ELSE "food", IsoString(1), "", t) :
      a \in {5, 6, 7}, t \in TransactionTypes }

InitTotals == InitWith(LedgerStorages(TotalsPool))

NextView ==
  \/ Startup
  \/ \E v \in AppViews : SetCurrentView(v)

SpecTotals == InitTotals /\ [][NextView]_vars

(***************************************************************************)
(* SpecBreakdown: startup on stored ledgers some of whose transactions     *)
(* name a category the catalog does not have.                              *)
(***************************************************************************)
BreakdownPool ==
  { Tx("1", a, c, IsoString(1), "", "EXPENSE") :
      a \in {5, 6}, c \in {"food", "shopping", "legacy"} }
  \cup { Tx("1", 7, "legacy", IsoString(1), "", "INCOME") }

InitBreakdown == InitWith(LedgerStorages(BreakdownPool))

SpecBreakdown == InitBreakdown /\ [][NextView]_vars

(***************************************************************************)
(* SpecMonthly: startup on stored ledgers dated in the last month of this  *)
(* year, the first month of the next, and that month a century earlier.    *)
(***************************************************************************)
MonthlyPool ==
  { Tx("1", 5, "food", IsoString(LocalInstant(ym[1], ym[2], 1, 0)), "", t) :
      ym \in { <<0, MonthsPerYear - 1>>, <<1, 0>>, <<1 - YearsPerCentury, 0>> },
      t \in TransactionTypes }

InitMonthly == InitWith(LedgerStorages(MonthlyPool))

SpecMonthly == InitMonthly /\ [][NextView]_vars

(***************************************************************************)
(* SpecTrend: startup on stored ledgers dated last year, in the first and  *)
(* in a later month of this year, and next year.                           *)
(***************************************************************************)
TrendPool ==
  { Tx("1", IF t = "INCOME" THEN 2 ELSE 1, "food",
       IsoString(LocalInstant(ym[1], ym[2], 1, 1)), "", t) :
      ym \in { <<-1, MonthsPerYear - 1>>, <<0, 0>>, <<0, 5>>, <<1, 0>> },
      t \in TransactionTypes }

InitTrend == InitWith(LedgerStorages(TrendPool))

SpecTrend == InitTrend /\ [][NextView]_vars

(***************************************************************************)
(* SpecSort: startup on stored ledgers of both types on three instants of  *)
(* two days; the sort select.                                              *)
(***************************************************************************)
SortPool ==
  { Tx("1", 5, "food", IsoString(LocalInstant(0, 0, dh[1], dh[2])), "", t) :
      dh \in { <<1, 0>>, <<1, 1>>, <<2, 0>> }, t \in TransactionTypes }

InitSort == InitWith(LedgerStorages(SortPool))

NextSort ==
  \/ Startup
  \/ \E option \in SortOptions : SetSortOption(option)

SpecSort == InitSort /\ [][NextSort]_vars

(***************************************************************************)
(* SpecCsv: startup on stored ledgers whose notes hold quotes, commas and  *)
(* line breaks; the settings and the export.                               *)
(***************************************************************************)
CsvNotes == {"", "lunch", "\"", "\"\"", "say \"hi\"", "a,b", "a\nb"}

CsvPool ==
  { Tx("1", 12, "food", IsoString(LocalInstant(0, 0, 1, 1)), n, "EXPENSE") : n \in CsvNotes }
  \cup { Tx("2", 7, "legacy", IsoString(LocalInstant(0, 1, 2, 0)), "salary", "INCOME") }

InitCsv == InitWith(LedgerStorages(CsvPool))

NextCsv ==
  \/ Startup
  \/ OpenSettings
  \/ CloseSettings
  \/ HandleExportCSV

SpecCsv == InitCsv /\ [][NextCsv]_vars

(***************************************************************************)
(* SpecSavings: startup one tick before a month begins, on stored ledgers  *)
(* dated in the month that ends and in the month that begins; the clock,   *)
(* creates and deletes.                                                    *)
(***************************************************************************)
SavingsPool ==
  { Tx("1", IF t = "INCOME" THEN 6 ELSE 5, "food", d, "", t) :
      d \in { IsoString(LocalInstant(0, 0, 1, 0) - 1), IsoString(LocalInstant(0, 0, 1, 0)) },
      t \in TransactionTypes }
  \cup { Tx("2", 5, "food", NoDate, "", "EXPENSE") }

InitSavings == InitAt(LocalInstant(0, 0, 1, 0) - 1, LedgerStorages(SavingsPool))

NextSavings ==
  \/ Startup
  \/ Tick
  \/ OpenAddModal
  \/ \E i \in DOMAIN transactions : HandleTransactionClick(i)
  \/ CloseAddModal
  \/ \E v \in {"12"} : SetAmount(v)
  \/ HandleSaveTransaction
  \/ \E confirmed \in BOOLEAN : HandleDeleteTransaction(confirmed)

SpecSavings == InitSavings /\ [][NextSavings]_vars

(***************************************************************************)
(* SpecViews: startup on the stored ledgers of SpecSort; the sort select,  *)
(* the three views, the settings and the export.                           *)
(***************************************************************************)
NextViews ==
  \/ Startup
  \/ \E option \in SortOptions : SetSortOption(option)
  \/ \E v \in AppViews : SetCurrentView(v)
  \/ OpenSettings
  \/ CloseSettings
  \/ HandleExportCSV

SpecViews == InitSort /\ [][NextViews]_vars

(***************************************************************************)
(* SpecExpense: startup on stored ledgers of expenses of two categories    *)
(* and of incomes, one of them filed under an expense category.            *)
(***************************************************************************)
ExpensePool ==
  { Tx("1", a, c, IsoString(1), "", "EXPENSE") : a \in {5, 6}, c \in {"food", "shopping"} }
  \cup { Tx("1", 7, c, IsoString(1), "", "INCOME") : c \in {"food", "other_income"} }

InitExpense == InitWith(LedgerStorages(ExpensePool))

SpecExpense == InitExpense /\ [][NextView]_vars

(***************************************************************************)
(* SpecWorker: the service worker from its installation on, on an origin   *)
(* whose CacheStorage may hold the cache of an earlier version; requests   *)
(* of three methods for four URLs and every kind of network outcome.       *)
(***************************************************************************)
Methods == {"GET", "POST", "HEAD"}

\* The cached URLs, a font the page loads later, and an extension resource.
RequestUrls ==
  URLS_TO_CACHE \cup { Url("https", "fonts.gstatic.com"), Url("chrome-extension", "x/y.js") }

NetworkOutcomes ==
  { NoResponse, Resp(200, "basic", "a"), Resp(200, "cors", "b"), Resp(204, "basic", ""),
    Resp(404, "basic", "a"), Resp(0, "opaque", "") }

InitialCaches ==
  { NoCaches,
    [c \in {"smart-ledger-v0"} |->
       [u \in {Url("https", "/index.html")} |-> Resp(200, "basic", "old")]] }

InitWorker ==
  /\ InitApp(1, {EmptyStorage})
  /\ swState = "parsed"
  /\ cacheStorage \in InitialCaches
  /\ lastFetch = NoFetch

NextWorker ==
  \/ \E network \in [URLS_TO_CACHE -> {NoResponse, Resp(200, "basic", "a"), Resp(204, "basic", "")}] :
       SwInstall(network)
  \/ SwActivate
  \/ \E method \in Methods, url \in RequestUrls, network \in NetworkOutcomes :
       SwFetch(method, url, network)

SpecWorker == InitWorker /\ [][NextWorker]_vars

(***************************************************************************)
(* Claims.                                                                 *)
(***************************************************************************)
\* The ids of the stored ledger, and one that no transaction has.
TxIds == {"1", "2", "3"}

EditFieldSets ==
  { FormFields(a, c, d, n, t) :
      a \in EditAmounts, c \in CategoryIds, d \in EditDates,
      n \in EditNotes, t \in TransactionTypes }

\* C5: an update of id X (a save while editingTransaction has id X) replaces
\* amount, categoryId, date, note and type of every stored transaction whose id
\* is X by the form's values, keeps its id and its position, leaves every
\* transaction with another id and the length of the list unchanged; and an
\* update of an id no stored transaction has changes nothing.
C5_UpdateFrame ==
  [][ /\ lastOp' = "update" =>
           /\ Len(transactions') = Len(transactions)
           /\ \A i \in DOMAIN transactions :
                IF transactions[i].id = editingTransaction.id
                  THEN /\ transactions'[i].id = transactions[i].id
                       /\ transactions'[i].amount = ParseFloat(amount)
                       /\ transactions'[i].categoryId = selectedCategory
                       /\ transactions'[i].date = LocalInputToIso(date)
                       /\ transactions'[i].note = note
                       /\ transactions'[i].type = type
                  ELSE transactions'[i] = transactions[i]
      /\ transactions' # transactions =>
           \A X \in TxIds, f \in EditFieldSets :
             (\A i \in DOMAIN transactions' : transactions'[i].id # X)
               => UpdateTransactions(transactions', X, f) = transactions'
    ]_vars

\* An update has run that replaced all five fields of the two transactions with
\* id "1" and left the transaction with id "2" between them as it was stored.
C5_Witness ==
  /\ lastOp = "update"
  /\ Len(transactions) = 3
  /\ transactions[1] = [StoredLedger[1] EXCEPT
                          !.amount = Num(7), !.categoryId = "other_income",
                          !.date = IsoString(2), !.note = "lunch", !.type = "INCOME"]
  /\ transactions[3] = transactions[1]
  /\ transactions[2] = StoredLedger[2]

\* C1: whenever the save effects of the last mutation have run, every persisted
\* entry is the serialization of the in-memory value, and a reload (the load
\* effect on that storage) restores exactly the in-memory state.
C1_ReloadRestores ==
  Running =>
    /\ storage = SaveEffects(storage, {"transactions", "budgets", "savingsGoal", "language"},
                             transactions, budgets, savingsGoal, language)
    /\ LoadedState(storage).transactions = transactions
    /\ LoadedState(storage).budgets = budgets
    /\ LoadedState(storage).savingsGoal = savingsGoal
    /\ LoadedState(storage).language = language

\* C2: every stored transaction has an amount that is a positive number.
C2_AmountsPositive ==
  \A i \in DOMAIN transactions : NumGt(transactions[i].amount, Zero)

\* C3: no two stored transactions share an id.
C3_IdsUnique ==
  \A i, j \in DOMAIN transactions : i # j => transactions[i].id # transactions[j].id

\* C4: whenever the form is ready to create a transaction, creating it and then
\* deleting the transaction with the new id gives back the list as it is.
C4_CreateThenDelete ==
  (/\ Running /\ showAddModal /\ editingTransaction = NoTransaction
   /\ ~AmountRejected(amount) /\ DateValid(date))
  => LET f == FormFields(amount, selectedCategory, date, note, type)
         created == CreateTransaction(transactions, now, f)
     IN DeleteTransaction(created, created[1].id) = transactions

\* C6: a confirmed clear leaves transactions, budgets and savings goal at [], {}
\* and 0 in memory; once its effects have run, the persisted entries of all three
\* load back to exactly those values; the language, in memory and persisted, is
\* left as it was.
C6_ClearAll ==
  [][ lastOp' = "clear" =>
        /\ transactions' = <<>>
        /\ budgets' = EmptyMap
        /\ savingsGoal' = Zero
        /\ LoadedState(storage').transactions = <<>>
        /\ LoadedState(storage').transactionsIsArray
        /\ LoadedState(storage').budgets = EmptyMap
        /\ LoadedState(storage').savingsGoal = Zero
        /\ language' = language
        /\ storage'.language = storage.language
    ]_vars

\* A clear has run from a state with a savings goal other than 0 (its save effect
\* wrote the 0 back) and a language other than the default, and its effects ran.
C6_Witness ==
  /\ lastOp = "clear"
  /\ fatal = "none"
  /\ storage.transactions = ArrayText(<<>>)
  /\ storage.budgets = MapText(EmptyMap)
  /\ storage.savingsGoal = Text("0")
  /\ language = "de"

\* C7: every budget and the savings goal is a number >= 0.
C7_NonNegative ==
  /\ \A c \in DOMAIN budgets : NumLeq(Zero, budgets[c])
  /\ NumLeq(Zero, savingsGoal)

\* An entry the load is to treat as absent: missing, unparseable, or parseable
\* to the wrong shape.
MalformedTransactions(e) ==
  \/ ~e.present \/ ~e.parses \/ ~e.isArray
  \/ \E i \in DOMAIN e.items : ~IsNumber(e.items[i].amount)
MalformedBudgets(e) == ~e.present \/ ~e.parses
MalformedGoal(e) == ~e.present \/ ~IsNumber(ParseFloat(e.text))
MalformedLanguage(e) == ~e.present \/ e.text \notin Languages

\* C8: the load leaves the in-memory value of every key whose entry is missing
\* or malformed at its default, and startup ends without an uncaught error.
C8_LoadTolerant ==
  /\ pc = "loaded" =>
       /\ MalformedTransactions(storage.transactions) =>
            (transactions = <<>> /\ transactionsIsArray)
       /\ MalformedBudgets(storage.budgets) => budgets = EmptyMap
       /\ MalformedGoal(storage.savingsGoal) => savingsGoal = Zero
       /\ MalformedLanguage(storage.language) => language = "en"
  /\ fatal = "none"

\* C9: a raising setItem never ends the application: no write failure is left
\* as an uncaught error.
C9_WriteFailureNonFatal == fatal # "QuotaExceededError"

\* C10: the result of a smart-parse call whose form was closed, reset or reopened
\* while the call was in flight changes no field of the form.
C10_StaleResultDiscarded ==
  [][ lastOp' = "parseSettledStale" => UNCHANGED formFields ]_vars

\* C11: for a call in flight from the open form and every remote answer, the
\* settle leaves every form field whose value the answer does not hold
\* (category, type, note, date) as it is, and leaves all five fields as they are
\* when the answer holds no amount.
C11_AbsentFieldsKept ==
  (Running /\ showAddModal /\ inflight.fresh > 0) =>
    \A r \in SmartAnswers :
      LET f == SmartParseFields(r, now) IN
        IF ~r.ok \/ ~r.amount.truthy
          THEN f = [amount |-> amount, selectedCategory |-> selectedCategory,
                    type |-> type, note |-> note, date |-> date]
          ELSE /\ ~r.categoryName.truthy => f.selectedCategory = selectedCategory
               /\ r.type = "" => f.type = type
               /\ ~r.note.truthy => f.note = note
               /\ r.date.fmt = "absent" => f.date = date

\* C12: every settle of an insight request, whether the remote call failed,
\* returned no text or returned text, ends without an error and leaves aiInsight
\* a non-empty string and isLoadingInsight false.
C12_InsightNeverFails ==
  [][ lastOp' = "insightSettled" =>
        /\ ~handlerError'
        /\ ~aiInsight'.isNull /\ aiInsight'.text # ""
        /\ aiInsight'.text \in {"Spend less.", " ",
                                "Unable to generate insights at the moment.",
                                "Sorry, I couldn't analyze your data right now."}
        /\ ~isLoadingInsight'
    ]_vars

\* A request whose remote call failed has settled with the fallback text.
C12_Witness ==
  /\ lastOp = "insightSettled"
  /\ aiInsight = InsightText("Sorry, I couldn't analyze your data right now.")
  /\ ~isLoadingInsight
  /\ insightCalls = 0

\* C13: no handler of the store ends by throwing: in particular no save, whatever
\* the date input holds, lets an exception escape handleSaveTransaction.
C13_NothingThrows == ~handlerError

\* C14: for the loaded transaction list, the empty one included, totalBalance is
\* exactly totalIncome - totalExpense.
C14_BalanceIsIncomeMinusExpense ==
  Running =>
    TotalBalance(transactions) =
      JsSub(TotalIncome(transactions), TotalExpense(transactions))

\* The list with every category the catalog does not have replaced by a known one.
Recategorized(txs) ==
  [i \in DOMAIN txs |->
     IF txs[i].categoryId \in CategoryIds THEN txs[i]
     ELSE [txs[i] EXCEPT !.categoryId = "food"]]

\* C15: a transaction whose categoryId is not in the catalog counts in balance,
\* income and expense exactly as one of a known category does, and the expense
\* breakdown is the breakdown of the list without it: it has no entry of its
\* name and adds to no other entry.
C15_UnknownCategory ==
  Running =>
    LET known == SelectSeq(transactions, LAMBDA t : t.categoryId \in CategoryIds) IN
      /\ TotalBalance(transactions) = TotalBalance(Recategorized(transactions))
      /\ TotalIncome(transactions) = TotalIncome(Recategorized(transactions))
      /\ TotalExpense(transactions) = TotalExpense(Recategorized(transactions))
      /\ ExpenseData(transactions) = ExpenseData(known)
      /\ \A i \in DOMAIN ExpenseData(transactions) :
           ExpenseData(transactions)[i].name \in { CatName(c) : c \in CategoryIds }

\* The loaded list holds an expense of an unknown category between expenses of
\* two known ones: the total counts all three, the breakdown has two entries.
C15_Witness ==
  /\ Running
  /\ Len(transactions) = 3
  /\ transactions[1].categoryId = "food"
  /\ transactions[2].categoryId = "legacy" /\ transactions[2].type = "EXPENSE"
  /\ transactions[3].categoryId = "shopping"
  /\ Len(ExpenseData(transactions)) = 2
  /\ NumGt(TotalExpense(transactions),
           JsAdd(transactions[1].amount, transactions[3].amount))

\* The calendar month of a date, counted in months.
YearMonth(s) == GetFullYear(s) * MonthsPerYear + GetMonth(s)

\* C16: in the monthly series of the loaded list, whatever its order, every
\* transaction of an earlier entry is dated in an earlier calendar month (year,
\* then month) than every transaction of a later entry.
C16_MonthlyChronological ==
  Running =>
    LET series == MonthlyData(transactions) IN
      \A i, j \in DOMAIN series : i < j =>
        \A x, y \in DOMAIN transactions :
          (/\ MonthKey(transactions[x].date) = series[i].month
           /\ MonthKey(transactions[y].date) = series[j].month)
          => YearMonth(transactions[x].date) < YearMonth(transactions[y].date)

\* C17: the net asset trend of the current year has exactly 12 points, and its
\* first point minus its last is the negated signed sum (income positive, expense
\* negative) of the transactions dated in that year.
C17_TrendSpansYear ==
  Running =>
    LET year == CurrentYear(now)
        points == NetAssetData(transactions, year)
        ofYear == SelectSeq(transactions, LAMBDA tx : GetFullYear(tx.date) = year)
    IN /\ Len(points) = 12
       /\ JsSub(points[1].netAsset, points[Len(points)].netAsset)
            = JsSub(Zero, SignedSum(ofYear, Len(ofYear)))

\* s is a rearrangement of txs.
IsPermutation(s, txs) ==
  /\ Len(s) = Len(txs)
  /\ \E f \in [DOMAIN s -> DOMAIN txs] :
       /\ \A i, j \in DOMAIN s : i # j => f[i] # f[j]
       /\ \A i \in DOMAIN s : s[i] = txs[f[i]]

\* C18: under TYPE_EXPENSE the sorted view is a rearrangement of the list in
\* which no INCOME transaction precedes an EXPENSE one and, of two transactions
\* of one type, none precedes one with a later date; under TYPE_INCOME the same
\* with the two types swapped.
C18_TypeSort ==
  (Running /\ sortOption \in {"TYPE_EXPENSE", "TYPE_INCOME"}) =>
    LET first == IF sortOption = "TYPE_EXPENSE" THEN "EXPENSE" ELSE "INCOME"
        sorted == SortedTransactions(transactions, sortOption)
    IN /\ IsPermutation(sorted, transactions)
       /\ \A i, j \in DOMAIN sorted : i < j =>
            /\ ~(sorted[i].type # first /\ sorted[j].type = first)
            /\ sorted[i].type = sorted[j].type
                 => GetTime(sorted[i].date) >= GetTime(sorted[j].date)

\* TYPE_INCOME is selected on a list stored as [EXPENSE, older INCOME, newer
\* INCOME]: the view shows the newer income, the older income, the expense.
C18_Witness ==
  /\ Running /\ sortOption = "TYPE_INCOME"
  /\ Len(transactions) = 3
  /\ transactions[1].type = "EXPENSE"
  /\ transactions[2].type = "INCOME" /\ transactions[3].type = "INCOME"
  /\ GetTime(transactions[2].date) < GetTime(transactions[3].date)
  /\ SortedTransactions(transactions, sortOption)
       = <<transactions[3], transactions[2], transactions[1]>>

\* The local calendar day of a date.
LocalDay(d) == <<GetFullYear(d), GetMonth(d), GetDate(d)>>

\* C19: under a date sort, the groups partition the sorted list by local calendar
\* day: each group holds exactly the transactions of its day in their sorted
\* order, no two groups have the same day, every transaction's day has a group,
\* and the groups are in the order in which their days first occur in the sorted
\* list.
C19_GroupByDay ==
  (Running /\ sortOption \in {"DATE_DESC", "DATE_ASC"}) =>
    LET sorted == SortedTransactions(transactions, sortOption)
        groups == GroupedTransactions(transactions, sortOption)
        First(g) == CHOOSE i \in DOMAIN sorted :
                      /\ LocalDay(sorted[i].date) = LocalDay(groups[g].date)
                      /\ \A j \in DOMAIN sorted :
                           j < i => LocalDay(sorted[j].date) # LocalDay(groups[g].date)
    IN /\ \A g \in DOMAIN groups :
            /\ groups[g].transactions # <<>>
            /\ groups[g].transactions
                 = SelectSeq(sorted, LAMBDA t : LocalDay(t.date) = LocalDay(groups[g].date))
       /\ \A g, h \in DOMAIN groups :
            g # h => LocalDay(groups[g].date) # LocalDay(groups[h].date)
       /\ \A i \in DOMAIN sorted :
            \E g \in DOMAIN groups : LocalDay(groups[g].date) = LocalDay(sorted[i].date)
       /\ \A g, h \in DOMAIN groups : g < h => First(g) < First(h)

\* The list [day 1 early, day 1 late, day 2 early] under DATE_DESC: two groups,
\* day 2 and then day 1, the group of day 1 holding both of its transactions,
\* later first.
C19_Witness ==
  /\ Running /\ sortOption = "DATE_DESC"
  /\ Len(transactions) = 3
  /\ transactions[1].date = IsoString(LocalInstant(0, 0, 1, 0))
  /\ transactions[2].date = IsoString(LocalInstant(0, 0, 1, 1))
  /\ transactions[3].date = IsoString(LocalInstant(0, 0, 2, 0))
  /\ LET groups == GroupedTransactions(transactions, sortOption) IN
       /\ Len(groups) = 2
       /\ groups[1].transactions = <<transactions[3]>>
       /\ groups[2].transactions = <<transactions[2], transactions[1]>>

\* Reading a CSV text: records end at a line break and fields at a comma, except
\* between double quotes; each field is kept as written.
\* Position i of cs lies between double quotes.
InQuotes(cs, i) == Cardinality({ k \in 1 .. i - 1 : cs[k] = "\"" }) % 2 = 1

\* The parts of cs between the separators sep that are not between quotes.
SplitOutsideQuotes(cs, sep) ==
  LET at == { i \in DOMAIN cs : cs[i] = sep /\ ~InQuotes(cs, i) }
      nth(k) == CHOOSE i \in at : Cardinality({ j \in at : j < i }) = k - 1
  IN [k \in 1 .. Cardinality(at) + 1 |->
        SubSeq(cs, IF k = 1 THEN 1 ELSE nth(k - 1) + 1,
                   IF k = Cardinality(at) + 1 THEN Len(cs) ELSE nth(k) - 1)]

ReadCsv(cs) ==
  LET lines == SplitOutsideQuotes(cs, "\n") IN
    [k \in DOMAIN lines |-> SplitOutsideQuotes(lines[k], ",")]

\* Undoing the doubling: every pair of double quotes becomes one.
RECURSIVE Undouble(_)
Undouble(cs) ==
  IF cs = <<>> THEN <<>>
  ELSE IF Len(cs) >= 2 /\ cs[1] = "\"" /\ cs[2] = "\""
    THEN <<"\"">> \o Undouble(Tail(Tail(cs)))
  ELSE <<Head(cs)>> \o Undouble(Tail(cs))

\* C20: the exported text reads as the header record Date,Type,Category,Amount,
\* Note followed by one record of five fields per stored transaction, in stored
\* order; the fifth field of each is the note with every double quote doubled,
\* between two double quotes, and undoing the doubling of what is between them
\* gives the note back.
C20_CsvExport ==
  [][ lastOp' = "export" =>
        LET records == ReadCsv(download'.content) IN
          /\ download'.saved
          /\ Len(records) = Len(transactions) + 1
          /\ records[1] = CsvHeaders
          /\ \A i \in DOMAIN transactions :
               LET r == records[i + 1]
                   noteChars == Chars(transactions[i].note)
               IN /\ Len(r) = 5
                  /\ r[2] = <<transactions[i].type>>
                  /\ Len(r[5]) >= 2
                  /\ r[5][1] = "\"" /\ r[5][Len(r[5])] = "\""
                  /\ Len(SubSeq(r[5], 2, Len(r[5]) - 1))
                       = Len(noteChars)
                           + Cardinality({k \in DOMAIN noteChars : noteChars[k] = "\""})
                  /\ Undouble(SubSeq(r[5], 2, Len(r[5]) - 1)) = noteChars
    ]_vars

\* An export has run on a list of three transactions whose notes are a text with
\* quotes, a text with a line break and a text with a comma.
C20_Witness ==
  /\ lastOp = "export"
  /\ download.saved
  /\ Len(transactions) = 3
  /\ transactions[1].note = "say \"hi\""
  /\ transactions[2].note = "a\nb"
  /\ transactions[3].note = "a,b"
  /\ Len(ReadCsv(download.content)) = 4

\* C21: at every moment of the running application the current-month savings
\* the goal tracking shows are income minus expense of exactly the stored
\* transactions whose local month and year are those of the clock's reading,
\* however store mutations and clock advances interleave.
C21_SavingsOfCurrentMonth ==
  Running => currentMonthSavings = CurrentMonthSavings(transactions, now)

\* C22: a change of the sort option, a change of view (which renders the sorted
\* list, the daily groups or the aggregations) and the CSV export leave the
\* stored transaction list, content and order, the budget map, the savings goal
\* and every persisted entry as they are.
C22_ViewsReadOnly ==
  [][ lastOp' \in {"sort", "view", "export"} =>
        /\ transactions' = transactions
        /\ budgets' = budgets
        /\ savingsGoal' = savingsGoal
        /\ storage' = storage
    ]_vars

\* The sort select was set to an order in which the view differs from the
\* stored list, after an export; the persisted list is still the stored one.
C22_Witness ==
  /\ lastOp = "sort"
  /\ download.saved
  /\ Len(transactions) = 3
  /\ SortedTransactions(transactions, sortOption) # transactions
  /\ GroupedTransactions(transactions, sortOption) # <<>>
  /\ storage.transactions = StringifyTransactions(transactions)

\* C23: isAiProcessing is true in every state in which at least one smart-parse
\* call is in flight, however requests and completions interleave.
C23_ProcessingWhileInFlight ==
  Running => (inflight.fresh + inflight.stale > 0 => isAiProcessing)

C25_MonthlyEntries ==
  Running =>
    LET series == MonthlyData(transactions)
        EntryOf(x) == CHOOSE i \in DOMAIN series : series[i].month = MonthKey(transactions[x].date)
    IN /\ \A x, y \in DOMAIN transactions :
            EntryOf(x) = EntryOf(y)
              <=> YearMonth(transactions[x].date) = YearMonth(transactions[y].date)
       /\ \A i \in DOMAIN series :
            series[i].surplus = JsSub(series[i].income, series[i].expense)

\* C26: the expense breakdown has one entry for every category name some
\* EXPENSE transaction resolves to and no other, no two entries with one name;
\* the value of an entry is the sum of the amounts of the EXPENSE transactions
\* resolving to its name, INCOME transactions adding nothing; and no entry
\* precedes one of a larger value.
C26_ExpenseBreakdown ==
  Running =>
    LET data == ExpenseData(transactions)
        OfName(n) == SelectSeq(transactions, LAMBDA t :
                       /\ t.type = "EXPENSE"
                       /\ t.categoryId \in CategoryIds
                       /\ CatName(t.categoryId) = n)
    IN /\ \A i, j \in DOMAIN data : i # j => data[i].name # data[j].name
       /\ \A i \in DOMAIN data :
            /\ OfName(data[i].name) # <<>>
            /\ data[i].value = AmountSum(OfName(data[i].name), Len(OfName(data[i].name)))
       /\ \A x \in DOMAIN transactions :
            (transactions[x].type = "EXPENSE" /\ transactions[x].categoryId \in CategoryIds)
              => \E i \in DOMAIN data : data[i].name = CatName(transactions[x].categoryId)
       /\ \A i, j \in DOMAIN data : i < j => NumLeq(data[j].value, data[i].value)

\* The loaded list is [food 5, income filed under food 7, shopping 6]: the
\* breakdown is shopping 6, then food 5.
C26_Witness ==
  /\ Running
  /\ Len(transactions) = 3
  /\ transactions[1].categoryId = "food" /\ transactions[1].type = "EXPENSE"
  /\ transactions[2].categoryId = "food" /\ transactions[2].type = "INCOME"
  /\ transactions[3].categoryId = "shopping" /\ transactions[3].type = "EXPENSE"
  /\ ExpenseData(transactions)
       = << [name |-> CatName("shopping"), value |-> Num(6)],
            [name |-> CatName("food"), value |-> Num(5)] >>

\* C27: from the start of the application until its load and save effects have
\* settled, no step changes a persisted transactions, budgets or savingsGoal
\* entry that held a value before the step: at every intermediate step the three
\* entries are what was persisted before startup.
C27_StartupKeepsPersisted ==
  [][ pc # "running" =>
        /\ storage.transactions.present => storage'.transactions = storage.transactions
        /\ storage.budgets.present => storage'.budgets = storage.budgets
        /\ storage.savingsGoal.present => storage'.savingsGoal = storage.savingsGoal
    ]_vars

\* The type of the catalog category with the given id.
CategoryType(id) ==
  ALL_CATEGORIES[CHOOSE i \in DOMAIN ALL_CATEGORIES : ALL_CATEGORIES[i].id = id].type

\* C28: every stored transaction whose categoryId is in the catalog has the type
\* of that category, whatever form actions (type toggle, category selection,
\* opening a transaction for edit) came before the save.
C28_TypeMatchesCategory ==
  Running =>
    \A i \in DOMAIN transactions :
      transactions[i].categoryId \in CategoryIds
        => transactions[i].type = CategoryType(transactions[i].categoryId)

\* C29: an insight call that was in flight when the data was cleared never sets
\* aiInsight: in particular, when the step that follows a confirmed clear is the
\* settle of a call, which then was requested before the clear, aiInsight is
\* still null after it.
C29_ClearedInsightStaysNull ==
  [][ (lastOp = "clear" /\ lastOp' = "insightSettled") => aiInsight'.isNull ]_vars

\* C30: a fetch event of a method other than GET is not answered by the worker
\* and leaves every cache as it is; a GET for which some cache has an entry is
\* answered with that entry, without a network fetch and without a cache write;
\* a fetch event changes the caches only by writing, into the cache CACHE_NAME,
\* the response of status 200 of a GET whose URL starts with http; and from the
\* activation on no cache other than CACHE_NAME exists.
C30_CacheFirstGetOnly ==
  [][ /\ lastOp' = "swFetch" =>
           /\ lastFetch'.method # "GET" =>
                (~lastFetch'.responded /\ ~lastFetch'.fetched /\ cacheStorage' = cacheStorage)
           /\ (lastFetch'.method = "GET"
                 /\ \E c \in DOMAIN cacheStorage : lastFetch'.url \in DOMAIN cacheStorage[c]) =>
                /\ \E c \in DOMAIN cacheStorage :
                     /\ lastFetch'.url \in DOMAIN cacheStorage[c]
                     /\ lastFetch'.response = cacheStorage[c][lastFetch'.url]
                /\ lastFetch'.responded /\ ~lastFetch'.fetched
                /\ cacheStorage' = cacheStorage
           /\ \A c \in DOMAIN cacheStorage', u \in RequestUrls :
                (/\ u \in DOMAIN cacheStorage'[c]
                 /\ (c \notin DOMAIN cacheStorage \/ u \notin DOMAIN cacheStorage[c]
                       \/ cacheStorage[c][u] # cacheStorage'[c][u])) =>
                  /\ c = CACHE_NAME
                  /\ u = lastFetch'.url
                  /\ lastFetch'.method = "GET"
                  /\ lastFetch'.fetched
                  /\ cacheStorage'[c][u] = lastFetch'.response
                  /\ lastFetch'.response.status = 200
                  /\ u.scheme \in {"http", "https"}
           /\ \A c \in DOMAIN cacheStorage : c \in DOMAIN cacheStorage'
                /\ \A u \in DOMAIN cacheStorage[c] : u \in DOMAIN cacheStorage'[c]
      /\ swState' = "activated" => DOMAIN cacheStorage' \subseteq {CACHE_NAME}
    ]_vars

\* After the activation, with CACHE_NAME the only cache, a GET for the font was
\* answered from the entry that an earlier GET had fetched and stored.
C30_Witness ==
  /\ swState = "activated"
  /\ lastOp = "swFetch"
  /\ DOMAIN cacheStorage = {CACHE_NAME}
  /\ lastFetch.method = "GET"
  /\ lastFetch.url = Url("https", "fonts.gstatic.com")
  /\ lastFetch.responded /\ ~lastFetch.fetched
  /\ lastFetch.response = Resp(200, "cors", "b")
  /\ cacheStorage[CACHE_NAME][Url("https", "/index.html")] = Resp(200, "basic", "a")

====
